---- MODULE Spec2Model ----
(***************************************************************************)
(* Model of the BER simulation core: the modulator/demodulator (ber.cpp),  *)
(* the K=7 rate-1/2 convolutional encoder and soft-decision Viterbi        *)
(* decoder (coding.cpp), and the uncoded and coded BER drivers (ber.cpp).  *)
(*                                                                         *)
(* Conventions.  C arrays are functions over 0..n-1 (C indices are kept).  *)
(* bool is BOOLEAN.  A double is a fixed-point integer, FP units to 1.0;   *)
(* multiplying or dividing by a constellation scale rounds to that grid,   *)
(* so the modulate/demodulate round trip is not an identity by             *)
(* construction.  LLRs and path metrics are integers (sums of the small    *)
(* integers used here are exact in a double as well).                      *)
(***************************************************************************)
EXTENDS Integers, Sequences, FiniteSets, TLC

VARIABLES
    state_table_initialized, \* coding.cpp:29, the process-wide flag
    enc,                     \* the last convolutional_encode call
    vit,                     \* the viterbi_decode call in progress
    md,                      \* the last modulate / demodulate round
    ber,                     \* the compute_ber / compute_ber_seeded call
    cber,                    \* the compute_ber_coded call
    threads,                 \* threads making their first coding call
    est                      \* the estimate_snr call

vars == <<state_table_initialized, enc, vit, md, ber, cber, threads, est>>

(***************************************************************************)
(* Bounds of the model.                                                    *)
(***************************************************************************)
MaxEncLen == 4      \* longest info sequence given to convolutional_encode
MaxInfoLen == 1     \* longest info sequence recovered by viterbi_decode
NumThreads == 2     \* threads that make a first coding call concurrently

(***************************************************************************)
(* Generic helpers.                                                        *)
(***************************************************************************)
Threads == 1..NumThreads

B2N(b) == IF b THEN 1 ELSE 0

Pow2(n) == 2 ^ n

\* bit i of the non-negative integer x
Bit(x, i) == (x \div Pow2(i)) % 2

\* bitwise operators on unsigned bytes
BitAnd(a, b) ==
    LET RECURSIVE F(_)
        F(i) == IF i < 0 THEN 0
                ELSE Bit(a, i) * Bit(b, i) * Pow2(i) + F(i - 1)
    IN F(7)

BitOr(a, b) ==
    LET RECURSIVE F(_)
        F(i) == IF i < 0 THEN 0
                ELSE (IF Bit(a, i) + Bit(b, i) > 0 THEN Pow2(i) ELSE 0) + F(i - 1)
    IN F(7)

popcount(x) ==
    LET RECURSIVE F(_)
        F(i) == IF i < 0 THEN 0 ELSE Bit(x, i) + F(i - 1)
    IN F(7)

\* a field of six bits in place of the byte
U6(x) == x % 64

U8(x) == x % 256

\* the bit sequences of length n, as functions over 0..n-1
BitArrays(n) == [0..(n - 1) -> BOOLEAN]

\* a store through a pointer: index idx of the buffer now holds v
Store(buf, idx, v) ==
    [i \in (DOMAIN buf) \cup {idx} |-> IF i = idx THEN v ELSE buf[i]]

EmptyBuf == [i \in {} |-> FALSE]

(***************************************************************************)
(* coding.cpp: constants and trellis table.                                *)
(***************************************************************************)
G1 == 91                \* 0b1011011
G2 == 121               \* 0b1111001
CONSTRAINT_LENGTH == 7
NUM_STATES == Pow2(CONSTRAINT_LENGTH - 1)
CODE_RATE_DEN == 2
States == 0..(NUM_STATES - 1)

\* an output bit that is the OR of the tapped register bits, not their parity
convolve_any(data, gen) == IF BitAnd(data, gen) # 0 THEN 1 ELSE 0

convolve(data, gen) == popcount(BitAnd(data, gen)) % 2

\* the shift register of init_conv_state_table: [input, state_bits]
shift_reg(state, input) == U8(BitOr(input * Pow2(CONSTRAINT_LENGTH - 1), state))

\* a table that packs the two output bits the other way round
table_output_swapped(state, input) ==
    LET out1 == convolve(shift_reg(state, input), G1)
        out2 == convolve(shift_reg(state, input), G2)
    IN U8(BitOr(out2 * 2, out1))

\* the G1 bit goes to bit 1 of the output, the G2 bit to bit 0
table_output(state, input) ==
    LET out1 == convolve(shift_reg(state, input), G1)
        out2 == convolve(shift_reg(state, input), G2)
    IN U8(BitOr(out1 * 2, out2))

table_next_state(state, input) == shift_reg(state, input) \div 2

\* the table as the first loop of init_conv_state_table leaves it
forward_table ==
    [state \in States |->
        [next_state |-> [input \in 0..1 |-> table_next_state(state, input)],
         output     |-> [input \in 0..1 |-> table_output(state, input)]]]

\* The second loop, for one state: the (prev_state, input) pairs whose
\* transition enters `state`, numbered 2 * prev_state + input so that their
\* order is the order of the scan; the scan keeps the first two.
Entering(state) ==
    {k \in 0..(2 * NUM_STATES - 1) :
        forward_table[k \div 2].next_state[k % 2] = state}

Lowest(S) == CHOOSE k \in S : \A j \in S : k <= j

\* a scan that stores the first transition it finds in both entries
ScanEntryFirstOnly(state, count) ==
    IF Entering(state) # {} THEN Lowest(Entering(state)) ELSE 0

\* the entry written at prev_state[count], prev_input[count]; an entry the
\* scan never writes keeps the zero of static storage
ScanEntry(state, count) ==
    LET S    == Entering(state)
        rest == S \ {Lowest(S)}
    IN IF count = 0 /\ S # {} THEN Lowest(S)
       ELSE IF count = 1 /\ S # {} /\ rest # {} THEN Lowest(rest)
       ELSE 0

\* the table after init_conv_state_table
built_state_table ==
    [state \in States |->
        [next_state |-> forward_table[state].next_state,
         output     |-> forward_table[state].output,
         prev_state |-> [count \in 0..1 |-> ScanEntry(state, count) \div 2],
         prev_input |-> [count \in 0..1 |-> ScanEntry(state, count) % 2]]]

\* static storage is zero-initialised
zero_state_table ==
    [state \in States |->
        [next_state |-> [input \in 0..1 |-> 0],
         output     |-> [input \in 0..1 |-> 0],
         prev_state |-> [count \in 0..1 |-> 0],
         prev_input |-> [count \in 0..1 |-> 0]]]

\* The process-wide table (coding.cpp:28).  The flag is set by the last
\* statement of init_conv_state_table, so a single-threaded reader sees the
\* zeroed table while the flag is clear and the built table once it is set.
state_table ==
    IF state_table_initialized THEN built_state_table ELSE zero_state_table

\* init_conv_state_table: the table and the flag after the call
init_conv_state_table(tbl, initialized) ==
    IF initialized THEN [table |-> tbl, initialized |-> initialized]
    ELSE [table |-> built_state_table, initialized |-> TRUE]

(***************************************************************************)
(* coding.cpp: convolutional_encode.                                       *)
(***************************************************************************)
\* one trellis step of the encoder: two stores and the state update
EncodeStep(tbl, acc, input) ==
    LET output == tbl[acc.state].output[input]
        b0 == (output \div 2) % 2 = 1
        b1 == output % 2 = 1
    IN [state      |-> tbl[acc.state].next_state[input],
        coded_bits |-> Store(Store(acc.coded_bits, acc.coded_idx, b0),
                             acc.coded_idx + 1, b1),
        coded_idx  |-> acc.coded_idx + 2,
        \* history of the call, kept for the properties only
        written    |-> acc.written \cup {acc.coded_idx, acc.coded_idx + 1},
        states     |-> Append(acc.states, acc.state)]

\* for (i = 0; i < info_len; i++) over the info bits
RECURSIVE EncodeInfoLoop(_, _, _, _, _)
EncodeInfoLoop(tbl, acc, info_bits, i, info_len) ==
    IF i >= info_len THEN acc
    ELSE EncodeInfoLoop(tbl, EncodeStep(tbl, acc, B2N(info_bits[i])), info_bits,
                        i + 1, info_len)

TailInput == 0

\* for (i = 0; i < CONSTRAINT_LENGTH - 1; i++) over the tail
RECURSIVE EncodeTailLoop(_, _, _)
EncodeTailLoop(tbl, acc, i) ==
    IF i >= CONSTRAINT_LENGTH - 1 THEN acc
    ELSE EncodeTailLoop(tbl, EncodeStep(tbl, acc, TailInput), i + 1)

\* a length that forgets the tail (2 * info_len)
EncodedLen_no_tail(info_len) == info_len * CODE_RATE_DEN

EncodedLen(info_len) == (info_len + (CONSTRAINT_LENGTH - 1)) * CODE_RATE_DEN

\* an encoder that stores *coded_len ahead of its argument check
convolutional_encode_len_first(a, tbl, initialized) ==
    IF a.info_null \/ a.coded_null \/ a.len_null \/ a.info_len <= 0
    THEN [ret |-> -1, coded_bits |-> a.coded_bits,
          coded_len |-> EncodedLen(a.info_len),
          state |-> 0, coded_idx |-> 0,
          table |-> tbl, initialized |-> initialized,
          written |-> {}, states |-> <<>>]
    ELSE LET g     == init_conv_state_table(tbl, initialized)
             start == [state |-> 0, coded_bits |-> a.coded_bits, coded_idx |-> 0,
                       written |-> {}, states |-> <<>>]
             body  == EncodeInfoLoop(g.table, start, a.info_bits, 0, a.info_len)
             fin   == EncodeTailLoop(g.table, body, 0)
         IN [ret |-> 0, coded_bits |-> fin.coded_bits,
             coded_len |-> EncodedLen(a.info_len),
             state |-> fin.state, coded_idx |-> fin.coded_idx,
             table |-> g.table, initialized |-> g.initialized,
             written |-> fin.written, states |-> fin.states]

\* The whole call.  a: info_bits, info_len, the three null flags, and the
\* caller's coded_bits buffer and coded_len variable before the call.
\* tbl, initialized: the process-wide table and flag before the call.
convolutional_encode(a, tbl, initialized) ==
    IF a.info_null \/ a.coded_null \/ a.len_null \/ a.info_len <= 0
    THEN [ret |-> -1, coded_bits |-> a.coded_bits, coded_len |-> a.coded_len,
          state |-> 0, coded_idx |-> 0,
          table |-> tbl, initialized |-> initialized,
          written |-> {}, states |-> <<>>]
    ELSE LET g     == init_conv_state_table(tbl, initialized)
             start == [state |-> 0, coded_bits |-> a.coded_bits, coded_idx |-> 0,
                       written |-> {}, states |-> <<>>]
             body  == EncodeInfoLoop(g.table, start, a.info_bits, 0, a.info_len)
             fin   == EncodeTailLoop(g.table, body, 0)
         IN [ret |-> 0, coded_bits |-> fin.coded_bits,
             coded_len |-> EncodedLen(a.info_len),
             state |-> fin.state, coded_idx |-> fin.coded_idx,
             table |-> g.table, initialized |-> g.initialized,
             written |-> fin.written, states |-> fin.states]

(***************************************************************************)
(* coding.cpp: viterbi_decode.                                             *)
(***************************************************************************)
\* "minus infinity" of the path metrics; the model's value stands for -1e30
\* and lies below every metric the bounded LLRs can produce
NEG_INF == -1000000000

\* row 0 of the two grids: metric 0 at state 0, NEG_INF elsewhere, history 0
InitialRow == [q \in States |-> <<IF q = 0 THEN 0 ELSE NEG_INF, 0>>]

\* a branch metric with the sign convention reversed
BranchMetric_reversed(output, llr0, llr1) ==
    (IF (output \div 2) % 2 = 1 THEN -llr0 ELSE llr0)
    + (IF output % 2 = 1 THEN -llr1 ELSE llr1)

\* branch metric: + LLR where the expected output bit is 1, - LLR where it is 0
BranchMetric(output, llr0, llr1) ==
    (IF (output \div 2) % 2 = 1 THEN llr0 ELSE -llr0)
    + (IF output % 2 = 1 THEN llr1 ELSE -llr1)

\* the branch metrics of one stage, by output value (the code evaluates the
\* same expression on every transition of the stage)
BranchMetrics(llr0, llr1) ==
    [output \in 0..3 |-> BranchMetric(output, llr0, llr1)]

\* a survivor test that keeps the smaller metric
Better_smaller(new_metric, incumbent) ==
    incumbent = NEG_INF \/ new_metric < incumbent

\* a survivor test that lets an equal metric replace the incumbent
Better_or_equal(new_metric, incumbent) == new_metric >= incumbent

\* the survivor test of the add-compare-select
Better(new_metric, incumbent) == new_metric > incumbent

\* history byte of a survivor: (state << 1) | input in a uint8_t
history_bytes ==
    [state \in States |-> [input \in 0..1 |-> U8(BitOr(state * 2, input))]]

\* Body of the two inner loops for one (state, input), seen from the cell
\* [stage + 1][next_state] it may write: cell is that cell's metric and
\* history before, the result is the cell after.  A state whose metric is
\* NEG_INF is skipped by the `continue`.
Acs(tbl, cur, cell, state, input, bm) ==
    IF cur[state][1] = NEG_INF THEN cell
    ELSE LET new_metric ==
                 cur[state][1] + bm[tbl[state].output[input]]
         IN IF Better(new_metric, cell[1])
            THEN <<new_metric, history_bytes[state][input]>>
            ELSE cell

\* The cell [stage + 1][next_state] after the loops over state and input.
\* The loops write a cell only on the transitions that enter it, and reach
\* them in ascending (state, input) order, which is the order of prev_state
\* and prev_input; the cell starts at (NEG_INF, 0).
AcsCell(tbl, cur, next_state, bm) ==
    Acs(tbl, cur,
        Acs(tbl, cur, <<NEG_INF, 0>>,
            tbl[next_state].prev_state[0], tbl[next_state].prev_input[0], bm),
        tbl[next_state].prev_state[1], tbl[next_state].prev_input[1], bm)

\* One iteration of the forward pass: the rows path_metrics[stage + 1] and
\* path_history[stage + 1], kept side by side as one row of
\* <<metric, history>> cells.  cur is the row of stage.
ForwardStage(tbl, cur, llr0, llr1) ==
    LET bm == BranchMetrics(llr0, llr1)
    IN [q \in States |-> AcsCell(tbl, cur, q, bm)]

\* the state the traceback starts from
TracebackStart == 0

\* backward pass from `stage` down to 1; history[s + 1] is the row of stage s
RECURSIVE Traceback(_, _, _, _, _)
Traceback(history, current_state, stage, info_len, decoded_bits) ==
    IF stage <= 0 THEN [decoded_bits |-> decoded_bits, current_state |-> current_state]
    ELSE LET h          == history[stage + 1][current_state][2]
             prev_state == h \div 2
             input      == h % 2
         IN Traceback(history, prev_state, stage - 1, info_len,
                      IF stage <= info_len
                      THEN Store(decoded_bits, stage - 1, input = 1)
                      ELSE decoded_bits)

\* head checks that let a frame of tail bits only go on (info_len < 0)
ViterbiStatus_off_by_one(a) ==
    IF a.llr_null \/ a.bits_null \/ a.len_null \/ a.received_len <= 0 THEN -1
    ELSE IF a.received_len % 2 # 0 THEN -2
    ELSE IF (a.received_len \div 2) - (CONSTRAINT_LENGTH - 1) < 0 THEN -3
    ELSE 0

\* the checks at the head of viterbi_decode: 0 when the call goes on
ViterbiStatus(a) ==
    IF a.llr_null \/ a.bits_null \/ a.len_null \/ a.received_len <= 0 THEN -1
    ELSE IF a.received_len % 2 # 0 THEN -2
    ELSE IF (a.received_len \div 2) - (CONSTRAINT_LENGTH - 1) <= 0 THEN -3
    ELSE 0

\* whether the call got as far as init_conv_state_table
ViterbiReachesInit(a) == ViterbiStatus(a) \in {0, -3}

\* the forward pass from `stage` on: the rows of stages 0..num_stages
RECURSIVE ForwardPass(_, _, _, _, _)
ForwardPass(tbl, received_llr, path, stage, num_stages) ==
    IF stage >= num_stages THEN path
    ELSE ForwardPass(tbl, received_llr,
                     Append(path, ForwardStage(tbl, path[stage + 1],
                                               received_llr[2 * stage],
                                               received_llr[2 * stage + 1])),
                     stage + 1, num_stages)

\* The whole call.  a: received_len, the three null flags, and the caller's
\* decoded_bits buffer and decoded_len variable before the call;
\* received_llr: the caller's array over 0..received_len-1.
viterbi_decode(a, received_llr, tbl, initialized) ==
    LET status     == ViterbiStatus(a)
        g          == init_conv_state_table(tbl, initialized)
        num_stages == a.received_len \div 2
        info_len   == num_stages - (CONSTRAINT_LENGTH - 1)
    IN IF ~ViterbiReachesInit(a)
       THEN [ret |-> status, decoded_bits |-> a.decoded_bits,
             decoded_len |-> a.decoded_len, table |-> tbl,
             initialized |-> initialized]
       ELSE IF status # 0
       THEN [ret |-> status, decoded_bits |-> a.decoded_bits,
             decoded_len |-> a.decoded_len, table |-> g.table,
             initialized |-> g.initialized]
       ELSE LET path == ForwardPass(g.table, received_llr, << InitialRow >>, 0,
                                    num_stages)
                tb   == Traceback(path, TracebackStart, num_stages, info_len,
                                  a.decoded_bits)
            IN [ret |-> 0, decoded_bits |-> tb.decoded_bits,
                decoded_len |-> info_len, table |-> g.table,
                initialized |-> g.initialized]

(***************************************************************************)
(* Idle values of the per-call records.                                    *)
(***************************************************************************)
NoArgs == [info_bits |-> EmptyBuf, info_len |-> 0, info_null |-> FALSE,
           coded_null |-> FALSE, len_null |-> FALSE, coded_bits |-> EmptyBuf,
           coded_len |-> 0]
\* ber, cber: re_first tells whether this build evaluates the real-part noise
\* draw of cdouble(noise_dist(gen), noise_dist(gen)) before the imaginary one
\* (the order of evaluation of the two arguments is unspecified).
\* threads: no thread has called yet; stores: the stores to state_table
\* executed so far, writers: the threads that executed some of them.
Idle ==
    [enc |-> [pc |-> "idle", args |-> NoArgs,
              res |-> convolutional_encode(NoArgs, zero_state_table, FALSE)],
     vit |-> [pc |-> "idle",
              args |-> [received_len |-> 0, llr_null |-> TRUE, bits_null |-> TRUE,
                        len_null |-> TRUE, decoded_bits |-> EmptyBuf,
                        decoded_len |-> 0],
              received_llr |-> <<>>, num_stages |-> 0, info_len |-> 0, stage |-> 0,
              path |-> <<>>,
              decoded_bits |-> EmptyBuf, decoded_len |-> 0, ret |-> 0],
     md |-> [pc |-> "idle"],
     ber |-> [pc |-> "idle", re_first |-> TRUE, first |-> [set |-> FALSE],
              other_since |-> FALSE],
     cber |-> [pc |-> "idle", re_first |-> TRUE],
     threads |-> [pc |-> [t \in Threads |-> "idle"],
                  fn |-> [t \in Threads |-> "none"],
                  stores |-> 0, writers |-> {}],
     est |-> [pc |-> "idle"]]

(***************************************************************************)
(* Calls of convolutional_encode.                                          *)
(***************************************************************************)
\* a caller's buffer that already holds two bits (its stale length is 99)
UsedBuf == [i \in 0..1 |-> TRUE]

\* the arguments of a call: a buffer of info_len bits, or a bad call
EncCalls ==
    UNION { { [info_bits |-> b, info_len |-> n, info_null |-> FALSE,
                coded_null |-> FALSE, len_null |-> FALSE,
                coded_bits |-> pre[1], coded_len |-> pre[2]] :
                  b \in BitArrays(n),
                  pre \in {<<EmptyBuf, 0>>, <<UsedBuf, 99>>} } : n \in 1..MaxEncLen }
    \cup { [info_bits |-> b, info_len |-> n, info_null |-> nl[1],
            coded_null |-> nl[2], len_null |-> nl[3],
            coded_bits |-> pre[1], coded_len |-> pre[2]] :
              n \in {-1, 0, 1}, b \in BitArrays(1),
              nl \in {<<TRUE, FALSE, FALSE>>, <<FALSE, TRUE, FALSE>>,
                      <<FALSE, FALSE, TRUE>>, <<FALSE, FALSE, FALSE>>},
              pre \in {<<EmptyBuf, 0>>, <<UsedBuf, 99>>} }

ConvolutionalEncodeCall ==
    \E a \in EncCalls :
        LET r == convolutional_encode(a, state_table, state_table_initialized)
        IN /\ enc' = [pc |-> "returned", args |-> a, res |-> r]
           /\ state_table_initialized' = r.initialized
           /\ UNCHANGED <<vit, md, ber, cber, threads, est>>

Init ==
    /\ state_table_initialized = FALSE
    /\ enc = Idle.enc
    /\ vit = Idle.vit
    /\ md = Idle.md
    /\ ber = Idle.ber
    /\ cber = Idle.cber
    /\ threads = Idle.threads
    /\ est = Idle.est

SpecEnc == Init /\ [][ConvolutionalEncodeCall]_vars

EncOk == enc.pc = "returned" /\ enc.res.ret = 0

(***************************************************************************)
(* Reference shift-register encoder, written from the definition of the    *)
(* code: u[t] is the t-th input, 0 before the start and in the tail.       *)
(***************************************************************************)
RefInput(a, t) ==
    IF t < 0 \/ t >= a.info_len THEN 0 ELSE B2N(a.info_bits[t])

\* bit i of the 7-bit register at step t: u[t] in bit 6, u[t-1-j] in bit 5-j
RefRegBit(a, t, i) ==
    IF i = CONSTRAINT_LENGTH - 1 THEN RefInput(a, t)
    ELSE RefInput(a, t - 1 - ((CONSTRAINT_LENGTH - 2) - i))

RefState(a, t) ==
    LET RECURSIVE F(_)
        F(i) == IF i < 0 THEN 0 ELSE RefRegBit(a, t, i) * Pow2(i) + F(i - 1)
    IN F(CONSTRAINT_LENGTH - 2)

RefCodedBit(a, t, gen) ==
    LET RECURSIVE F(_)
        F(i) == IF i < 0 THEN 0 ELSE Bit(gen, i) * RefRegBit(a, t, i) + F(i - 1)
    IN F(CONSTRAINT_LENGTH - 1) % 2

\* C4: the table-driven encoder equals the reference shift-register code:
\* before step t the state holds the last six inputs, coded bit 2t is the
\* GF(2) inner product of G1 with the register and coded bit 2t+1 that of G2.
C4_EncoderIsShiftRegister ==
    EncOk =>
        \A t \in 0..(enc.args.info_len + CONSTRAINT_LENGTH - 2) :
            /\ enc.res.states[t + 1] = RefState(enc.args, t)
            /\ enc.res.coded_bits[2 * t] = (RefCodedBit(enc.args, t, G1) = 1)
            /\ enc.res.coded_bits[2 * t + 1] = (RefCodedBit(enc.args, t, G2) = 1)

\* a successful call on 1,0,1,1: the two coded bits of some step differ
C4_Witness ==
    /\ EncOk
    /\ enc.args.info_len = 4
    /\ enc.args.info_bits = [i \in 0..3 |-> i # 1]
    /\ \E t \in 0..9 : enc.res.coded_bits[2 * t] # enc.res.coded_bits[2 * t + 1]

\* C5: a successful call returns 0, reports coded_len = 2(L+6), writes
\* exactly the indices 0..2(L+6)-1 and ends in encoder state 0.
C5_EncoderLengthAndTermination ==
    (enc.pc = "returned" /\ enc.args.info_len >= 1 /\ ~enc.args.info_null
        /\ ~enc.args.coded_null /\ ~enc.args.len_null) =>
        /\ enc.res.ret = 0
        /\ enc.res.coded_len = 2 * (enc.args.info_len + 6)
        /\ enc.res.written = 0..(2 * (enc.args.info_len + 6) - 1)
        /\ enc.res.state = 0

\* a successful call whose info bits are all 1: the tail alone clears the state
C5_Witness ==
    /\ EncOk
    /\ enc.args.info_len = MaxEncLen
    /\ \A i \in 0..(MaxEncLen - 1) : enc.args.info_bits[i]
    /\ enc.res.states[MaxEncLen + 1] # 0
    /\ enc.res.state = 0

\* C17: a coded_bits buffer with space for 2 * info_len bits is enough: a
\* successful call stores only below index 2 * info_len and reports a
\* coded_len of at most 2 * info_len.
C17_HeaderBufferSuffices ==
    EncOk =>
        /\ \A idx \in enc.res.written : idx < 2 * enc.args.info_len
        /\ enc.res.coded_len <= 2 * enc.args.info_len

(***************************************************************************)
(* Calls of viterbi_decode.  The call is followed stage by stage; the      *)
(* content of the caller's received_llr array is fixed before the call and *)
(* is revealed to the model pair by pair, as the forward pass reads it.    *)
(***************************************************************************)
IDEAL_C == 10       \* magnitude of an ideal LLR, as in test_convolutional_coding

\* the ideal (llr0, llr1) pairs a stage may read; the first stage may also
\* read a soft pair (an erased bit and a weak one)
IdealPairs == { <<IDEAL_C, IDEAL_C>>, <<IDEAL_C, -IDEAL_C>>, <<-IDEAL_C, IDEAL_C>>,
                <<-IDEAL_C, -IDEAL_C>> }

VitCalls ==
    { [received_len |-> n, llr_null |-> nl[1], bits_null |-> nl[2],
       len_null |-> nl[3], decoded_bits |-> pre[1], decoded_len |-> pre[2]] :
         n \in (-1)..(2 * (MaxInfoLen + (CONSTRAINT_LENGTH - 1)) + 1),
         nl \in {<<FALSE, FALSE, FALSE>>},
         pre \in {<<EmptyBuf, 0>>} }
    \cup
    { [received_len |-> n, llr_null |-> nl[1], bits_null |-> nl[2],
       len_null |-> nl[3], decoded_bits |-> pre[1], decoded_len |-> pre[2]] :
         n \in {0, 2 * (MaxInfoLen + (CONSTRAINT_LENGTH - 1))},
         nl \in {<<TRUE, FALSE, FALSE>>, <<FALSE, TRUE, FALSE>>,
                 <<FALSE, FALSE, TRUE>>},
         pre \in {<<EmptyBuf, 0>>, <<UsedBuf, 99>>} }
    \cup
    { [received_len |-> n, llr_null |-> FALSE, bits_null |-> FALSE,
       len_null |-> FALSE, decoded_bits |-> UsedBuf, decoded_len |-> 99] :
         n \in {-1, 1, 2 * (CONSTRAINT_LENGTH - 1)} }

\* entry of the call up to the start of the forward pass
ViterbiDecodeCall ==
    /\ vit.pc = "idle"
    /\ \E a \in VitCalls :
        LET status == ViterbiStatus(a)
            num_stages == a.received_len \div 2
            info_len == num_stages - (CONSTRAINT_LENGTH - 1)
        IN /\ vit' = IF status # 0
                     THEN [Idle.vit EXCEPT !.pc = "returned", !.args = a,
                             !.decoded_bits = a.decoded_bits,
                             !.decoded_len = a.decoded_len, !.ret = status]
                     ELSE [pc |-> "forward", args |-> a, received_llr |-> <<>>,
                           num_stages |-> num_stages, info_len |-> info_len,
                           stage |-> 0,
                           path |-> << InitialRow >>,
                           decoded_bits |-> a.decoded_bits,
                           decoded_len |-> info_len, ret |-> 0]
           /\ LET g == IF ViterbiReachesInit(a)
                       THEN init_conv_state_table(state_table, state_table_initialized)
                       ELSE [table |-> state_table,
                             initialized |-> state_table_initialized]
              IN state_table_initialized' = g.initialized
    /\ UNCHANGED <<enc, md, ber, cber, threads, est>>

\* one iteration of the forward pass
ViterbiForward ==
    /\ vit.pc = "forward"
    /\ vit.stage < vit.num_stages
    /\ \E pair \in IF vit.stage = 0 THEN IdealPairs \cup { <<0, -3>> }
                    ELSE IdealPairs :
        vit' = [vit EXCEPT !.received_llr = @ \o pair,
                           !.stage = @ + 1,
                           !.path = Append(@, ForwardStage(state_table,
                                                           vit.path[vit.stage + 1],
                                                           pair[1], pair[2]))]
    /\ UNCHANGED <<state_table_initialized, enc, md, ber, cber, threads, est>>

\* the backward pass and the return
ViterbiTraceback ==
    /\ vit.pc = "forward"
    /\ vit.stage = vit.num_stages
    /\ LET tb == Traceback(vit.path, TracebackStart, vit.num_stages,
                           vit.info_len, vit.decoded_bits)
       IN vit' = [vit EXCEPT !.pc = "returned", !.decoded_bits = tb.decoded_bits,
                             !.ret = 0]
    /\ UNCHANGED <<state_table_initialized, enc, md, ber, cber, threads, est>>

SpecVit ==
    Init /\ [][ViterbiDecodeCall \/ ViterbiForward \/ ViterbiTraceback]_vars

VitOk == vit.pc = "returned" /\ vit.ret = 0

\* the two grids of the decoder, for the stages processed so far
path_metrics(stage, q) == vit.path[stage + 1][q][1]
path_history(stage, q) == vit.path[stage + 1][q][2]

\* the codewords of the info sequences the decoder can return, each as
\* convolutional_encode writes it once the table is built
CodeBook ==
    [n \in 1..MaxInfoLen |->
        [I \in BitArrays(n) |->
            convolutional_encode([info_bits |-> I, info_len |-> n,
                                  info_null |-> FALSE, coded_null |-> FALSE,
                                  len_null |-> FALSE, coded_bits |-> EmptyBuf,
                                  coded_len |-> 0],
                                 built_state_table, TRUE).coded_bits]]

Codeword(I, n) == CodeBook[n][I]

\* the received LLRs as a C array over 0..received_len-1
ReceivedLLR(i) == vit.received_llr[i + 1]

\* the ideal LLR of a coded bit
IdealLLR(b) == IF b THEN IDEAL_C ELSE -IDEAL_C

\* correlation metric of a codeword against the received LLRs
Correlation(coded_bits, n) ==
    LET RECURSIVE F(_)
        F(i) == IF i < 0 THEN 0
                ELSE (IF coded_bits[i] THEN ReceivedLLR(i) ELSE -ReceivedLLR(i)) + F(i - 1)
    IN F(n - 1)

\* C2: ideal LLRs of the codeword of any info sequence I decode to I, with
\* status 0 and decoded_len = |I|.
C2_IdealRoundTrip ==
    (vit.pc = "returned" /\ ViterbiStatus(vit.args) = 0) =>
        \A I \in BitArrays(vit.args.received_len \div 2 - 6) :
            LET coded == Codeword(I, vit.args.received_len \div 2 - 6)
            IN (\A i \in 0..(vit.args.received_len - 1) :
                    ReceivedLLR(i) = IdealLLR(coded[i]))
               => /\ vit.ret = 0
                  /\ vit.decoded_len = vit.args.received_len \div 2 - 6
                  /\ vit.decoded_bits = I

\* the decoder has returned the info bit 1 from the ideal LLRs of its codeword
C2_Witness ==
    /\ VitOk
    /\ vit.args.received_len = 14
    /\ vit.decoded_len = 1
    /\ vit.decoded_bits = [i \in 0..0 |-> TRUE]
    /\ \A i \in 0..13 :
          ReceivedLLR(i) = IdealLLR(Codeword([j \in 0..0 |-> TRUE], 1)[i])

\* C3: the decoded info bits maximise the correlation metric of their
\* codeword over all info sequences of the same length.
C3_MaximumLikelihood ==
    VitOk =>
        LET best == Correlation(Codeword(vit.decoded_bits, vit.info_len),
                                vit.args.received_len)
        IN \A I \in BitArrays(vit.info_len) :
               best >= Correlation(Codeword(I, vit.info_len), vit.args.received_len)

\* a decode of noisy LLRs (they are the ideal LLRs of no codeword, and the
\* first stage read the soft pair) in which the decoded sequence strictly
\* beats another one
C3_Witness ==
    /\ VitOk
    /\ vit.info_len = 1
    /\ ReceivedLLR(0) = 0
    /\ \A I \in BitArrays(1) :
          \E i \in 2..13 : ReceivedLLR(i) # IdealLLR(Codeword(I, 1)[i])
    /\ \E I \in BitArrays(1) :
          Correlation(Codeword(vit.decoded_bits, 1), 14) > Correlation(Codeword(I, 1), 14)

SpecForward == Init /\ [][ViterbiDecodeCall \/ ViterbiForward]_vars

\* the metric a path arriving from state p with `input` offers at stage s
Candidate(s, p, input) ==
    path_metrics(s, p)
      + BranchMetric(forward_table[p].output[input],
                     ReceivedLLR(2 * s), ReceivedLLR(2 * s + 1))

\* C20: when the two paths into a state at a stage both exist, the survivor
\* (metric and history) is that of the lower-numbered predecessor unless the
\* other's metric is strictly greater; on equal metrics the first one stays.
\* Stated of the stage processed last; every stage is the last one at some
\* point of the call.
C20_TieKeepsIncumbent ==
    (vit.pc = "forward" /\ vit.stage >= 1) =>
        LET s    == vit.stage - 1
            prev == vit.path[s + 1]
            row  == vit.path[s + 2]
            bm   == BranchMetrics(ReceivedLLR(2 * s), ReceivedLLR(2 * s + 1))
        IN \A q \in States :
            LET input == q \div (NUM_STATES \div 2)
                p0    == (2 * q) % NUM_STATES
                p1    == p0 + 1
                c0    == prev[p0][1] + bm[forward_table[p0].output[input]]
                c1    == prev[p1][1] + bm[forward_table[p1].output[input]]
            IN (prev[p0][1] # NEG_INF /\ prev[p1][1] # NEG_INF) =>
                  IF c1 > c0 THEN row[q] = <<c1, 2 * p1 + input>>
                  ELSE row[q] = <<c0, 2 * p0 + input>>

\* at the seventh stage the paths from states 0 and 1 reach state 0 with the
\* same metric, and the history of state 0 names state 0
C20_Witness ==
    /\ vit.pc = "forward"
    /\ vit.stage = 7
    /\ path_metrics(6, 0) # NEG_INF
    /\ path_metrics(6, 1) # NEG_INF
    /\ Candidate(6, 0, 0) = Candidate(6, 1, 0)
    /\ path_metrics(7, 0) = Candidate(6, 0, 0)
    /\ path_history(7, 0) = 0

(***************************************************************************)
(* ber.cpp: numbers.  A double is an integer count of 1/FP; a constellation *)
(* scale is an integer count of 1/ScaleDen.  A product or a quotient by a  *)
(* scale is rounded to the grid, as the floating-point operation rounds to *)
(* the nearest double.  A complex number is a pair <<re, im>>.             *)
(***************************************************************************)
FP == 10 ^ 3
ScaleDen == 10 ^ 4

M_SQRT2_INV == 7071     \* 0.7071067811865476
M_SQRT10_INV == 3162    \* 0.31622776601683794
scale_qpsk == M_SQRT2_INV
scale_16qam == M_SQRT10_INV

\* a / b rounded to the nearest integer, halves away from zero (b > 0)
RoundDiv(a, b) ==
    IF a >= 0 THEN (2 * a + b) \div (2 * b) ELSE -((2 * (-a) + b) \div (2 * b))

\* x * scale and y / scale in double arithmetic
Mul(x, scale) == RoundDiv(x * scale, ScaleDen)
Div(y, scale) == RoundDiv(y * ScaleDen, scale)

\* static_cast<int> of a double: truncation toward zero
IntPart(x) == IF x >= 0 THEN x \div FP ELSE -((-x) \div FP)

\* size() of a vector held as a function over 0..n-1
Size(v) == Cardinality(DOMAIN v)

EmptySymbols == [i \in {} |-> <<0, 0>>]

\* static_cast<int>(log2(mod_order)) for mod_order >= 1
RECURSIVE Log2Floor(_)
Log2Floor(m) == IF m < 2 THEN 0 ELSE 1 + Log2Floor(m \div 2)

(***************************************************************************)
(* ber.cpp: modulate and demodulate.                                       *)
(***************************************************************************)
\* the lookup table, in index order 00, 01, 10, 11
qam_levels == [index \in 0..3 |-> (CASE index = 0 -> 3 [] index = 1 -> 1
                                      [] index = 2 -> -3 [] index = 3 -> -1) * FP]

get_level(msb, lsb) == qam_levels[2 * B2N(msb) + B2N(lsb)]

\* a quantiser that gives each threshold value to the level above it
demod_level_inclusive(val) ==
    IF val >= 2 * FP THEN 3 * FP
    ELSE IF val >= 0 THEN FP
    ELSE IF val >= -2 * FP THEN -FP
    ELSE -3 * FP

demod_level(val) ==
    IF val > 2 * FP THEN 3 * FP
    ELSE IF val > 0 THEN FP
    ELSE IF val > -2 * FP THEN -FP
    ELSE -3 * FP

valid_mod_orders == {2, 4, 16}
is_valid_mod_order(mod_order) == mod_order \in valid_mod_orders

\* BPSK/QPSK component of a bit
Antipodal(bit) == IF bit THEN -FP ELSE FP

\* a modulator that rounds the symbol count up
modulate_impl_round_up(bits, mod_order) ==
    LET bits_per_sym == Log2Floor(mod_order)
        num_sym      == (Size(bits) + bits_per_sym - 1) \div bits_per_sym
    IN [i \in 0..(num_sym - 1) |->
          IF mod_order = 2 THEN <<Antipodal(bits[i]), 0>>
          ELSE IF mod_order = 4 THEN
                 IF 2 * i + 1 >= Size(bits) THEN <<0, 0>>
                 ELSE <<Mul(Antipodal(bits[2 * i]), scale_qpsk),
                        Mul(Antipodal(bits[2 * i + 1]), scale_qpsk)>>
          ELSE IF mod_order = 16 THEN
                 IF 4 * i + 3 >= Size(bits) THEN <<0, 0>>
                 ELSE <<Mul(get_level(bits[4 * i], bits[4 * i + 2]), scale_16qam),
                        Mul(get_level(bits[4 * i + 1], bits[4 * i + 3]), scale_16qam)>>
          ELSE <<0, 0>>]

\* The three loops of modulate_impl.  The bounds checks of the QPSK and
\* 16-QAM loops leave every later symbol at its initial value 0.
modulate_impl(bits, mod_order) ==
    LET bits_per_sym == Log2Floor(mod_order)
        num_sym      == Size(bits) \div bits_per_sym
    IN [i \in 0..(num_sym - 1) |->
          IF mod_order = 2 THEN <<Antipodal(bits[i]), 0>>
          ELSE IF mod_order = 4 THEN
                 IF 2 * i + 1 >= Size(bits) THEN <<0, 0>>
                 ELSE <<Mul(Antipodal(bits[2 * i]), scale_qpsk),
                        Mul(Antipodal(bits[2 * i + 1]), scale_qpsk)>>
          ELSE IF mod_order = 16 THEN
                 IF 4 * i + 3 >= Size(bits) THEN <<0, 0>>
                 ELSE <<Mul(get_level(bits[4 * i], bits[4 * i + 2]), scale_16qam),
                        Mul(get_level(bits[4 * i + 1], bits[4 * i + 3]), scale_16qam)>>
          ELSE <<0, 0>>]

\* std::optional result: has = FALSE is nullopt
try_modulate(bits, mod_order) ==
    IF ~is_valid_mod_order(mod_order) THEN [has |-> FALSE, value |-> EmptySymbols]
    ELSE IF Size(bits) < Log2Floor(mod_order) THEN [has |-> FALSE, value |-> EmptySymbols]
    ELSE [has |-> TRUE, value |-> modulate_impl(bits, mod_order)]

modulate(bits, mod_order) ==
    LET result == try_modulate(bits, mod_order)
    IN IF result.has THEN result.value ELSE EmptySymbols

\* a decision that reads the two bits of a level as its binary index
level_to_bits_binary(level) ==
    CASE IntPart(level) = 3 -> <<FALSE, FALSE>>
      [] IntPart(level) = 1 -> <<FALSE, TRUE>>
      [] IntPart(level) = -1 -> <<TRUE, FALSE>>
      [] OTHER -> <<TRUE, TRUE>>

\* a decision that returns the pair of a level as <<lsb, msb>>
level_to_bits_swapped(level) ==
    CASE IntPart(level) = 3 -> <<FALSE, FALSE>>
      [] IntPart(level) = 1 -> <<TRUE, FALSE>>
      [] IntPart(level) = -1 -> <<TRUE, TRUE>>
      [] OTHER -> <<FALSE, TRUE>>

\* the switch of the level_to_bits lambda: <<msb, lsb>>
level_to_bits(level) ==
    CASE IntPart(level) = 3 -> <<FALSE, FALSE>>
      [] IntPart(level) = 1 -> <<FALSE, TRUE>>
      [] IntPart(level) = -1 -> <<TRUE, TRUE>>
      [] OTHER -> <<TRUE, FALSE>>

\* The three loops of demodulate, by the bit they store: bit j belongs to
\* symbol j \div bits_per_sym.
demodulate(symbols, mod_order) ==
    LET bits_per_sym == Log2Floor(mod_order)
        num_sym      == Size(symbols)
        size         == num_sym * bits_per_sym
    IN [j \in 0..(size - 1) |->
          IF mod_order = 2 THEN symbols[j][1] < 0
          ELSE IF mod_order = 4 THEN
                 LET i == j \div 2
                     y == <<Div(symbols[i][1], scale_qpsk), Div(symbols[i][2], scale_qpsk)>>
                 IN IF 2 * i + 1 >= size THEN FALSE
                    ELSE IF j % 2 = 0 THEN y[1] < 0 ELSE y[2] < 0
          ELSE IF mod_order = 16 THEN
                 LET i == j \div 4
                     z == <<Div(symbols[i][1], scale_16qam), Div(symbols[i][2], scale_16qam)>>
                     re_bits == level_to_bits(demod_level(z[1]))
                     im_bits == level_to_bits(demod_level(z[2]))
                 IN IF 4 * i + 3 >= size THEN FALSE
                    ELSE CASE j % 4 = 0 -> re_bits[1]
                           [] j % 4 = 2 -> re_bits[2]
                           [] j % 4 = 1 -> im_bits[1]
                           [] OTHER     -> im_bits[2]
          ELSE FALSE]

(***************************************************************************)
(* A modulate call followed by a demodulate call on its symbols, as in     *)
(* run_mod_demod_test.                                                     *)
(***************************************************************************)
MaxSyms == 2        \* most symbols in a modulated frame

ModulateCall ==
    /\ md.pc = "idle"
    /\ \E mod_order \in (valid_mod_orders \cup {3}) :
         \E n \in 0..(MaxSyms * Log2Floor(mod_order)) :
           \E bits \in BitArrays(n) :
             md' = [pc |-> "modulated", bits |-> bits, mod_order |-> mod_order,
                    symbols |-> modulate(bits, mod_order),
                    rx_bits |-> EmptyBuf]
    /\ UNCHANGED <<state_table_initialized, enc, vit, ber, cber, threads, est>>

DemodulateCall ==
    /\ md.pc = "modulated"
    /\ md' = [md EXCEPT !.pc = "demodulated",
                        !.rx_bits = demodulate(md.symbols, md.mod_order)]
    /\ UNCHANGED <<state_table_initialized, enc, vit, ber, cber, threads, est>>

SpecMod == Init /\ [][ModulateCall \/ DemodulateCall]_vars

\* C1: for M in {2, 4, 16} and a bit sequence whose length is a positive
\* multiple of k, demodulating the modulated symbols returns the sequence:
\* same length, same bit at every position.
C1_ModDemodRoundTrip ==
    (/\ md.pc = "demodulated"
     /\ md.mod_order \in {2, 4, 16}
     /\ Size(md.bits) > 0
     /\ Size(md.bits) % Log2Floor(md.mod_order) = 0)
    => /\ Size(md.rx_bits) = Size(md.bits)
       /\ \A i \in 0..(Size(md.bits) - 1) : md.rx_bits[i] = md.bits[i]

\* a 16-QAM frame of two symbols whose first symbol sits at (-1, -3) came
\* back: both inner and outer levels went through the scaling
C1_Witness ==
    /\ md.pc = "demodulated"
    /\ md.mod_order = 16
    /\ Size(md.bits) = 8
    /\ md.bits[0] /\ md.bits[2] /\ md.bits[1] /\ ~md.bits[3]
    /\ md.symbols[0] = <<Mul(-FP, scale_16qam), Mul(-3 * FP, scale_16qam)>>
    /\ md.rx_bits = md.bits

\* C16: modulate returns no symbols when M is not in {2, 4, 16} or the frame
\* has fewer than k bits; otherwise it returns floor(|B|/k) symbols and
\* symbol i is the symbol of bits k*i .. k*i+k-1 alone, so a trailing
\* partial group influences no symbol.
C16_ModulateLengthAndGroups ==
    md.pc \in {"modulated", "demodulated"} =>
        LET k == CASE md.mod_order = 2 -> 1
                   [] md.mod_order = 4 -> 2
                   [] OTHER -> 4
            n == Size(md.bits)
        IN IF md.mod_order \notin {2, 4, 16} \/ n < k
           THEN md.symbols = EmptySymbols
           ELSE /\ DOMAIN md.symbols = 0..((n \div k) - 1)
                /\ \A i \in 0..((n \div k) - 1) :
                      md.symbols[i] = modulate([j \in 0..(k - 1) |-> md.bits[k * i + j]],
                                               md.mod_order)[0]

\* a 16-QAM frame of six bits gave one symbol, and a frame of three bits none
C16_Witness ==
    /\ md.pc = "modulated"
    /\ md.mod_order = 16
    /\ Size(md.bits) = 6
    /\ Size(md.symbols) = 1
    /\ md.symbols[0] # <<0, 0>>

(***************************************************************************)
(* ber.cpp: random numbers.                                                *)
(* A generator seeded from std::random_device can produce any bits and any *)
(* noise: those draws are inputs of the call.  A generator seeded by the   *)
(* caller is a deterministic function of the seed: std::mt19937 and        *)
(* std::mt19937_64 are stood for by a small counter-based generator (its   *)
(* i-th output is a fixed function of the seed and of i), and the          *)
(* distributions read its outputs one by one.  A normal variate is         *)
(* unbounded, so the noise values do not depend on sigma.                  *)
(***************************************************************************)
GenModulus == 2 ^ 16 + 1

\* the generator state after seeding
mt19937(seed) == seed % GenModulus
mt19937_64(seed) == seed % GenModulus

\* the i-th output of the generator g, i >= 1
GenOutput(g, i) ==
    LET mixed == (((g % 251) + 1) * (i * i + 7)) % GenModulus
    IN (mixed * 5471 + i * 75 + 74) % GenModulus

\* uniform_int_distribution<int>(0, 1) on output i
bit_dist(g, i) == (GenOutput(g, i) \div 4) % 2 = 1

\* normal_distribution<double> on output i; the noise values, in units of
\* 1/FP: none, a push across the decision boundary of an inner 16-QAM level,
\* a push across zero
noise_dist(g, i) ==
    << 0, -1500, 0, 400, 1500, 0, -400, 0 >>[((GenOutput(g, i) \div 8) % 8) + 1]

\* the noise added to symbol j when `drawn` outputs were taken before
SeededNoise(g, drawn, j, re_first) ==
    LET a == noise_dist(g, drawn + 2 * j + 1)
        b == noise_dist(g, drawn + 2 * j + 2)
    IN IF re_first THEN <<a, b>> ELSE <<b, a>>

\* the noise pairs a generator seeded from random_device may add
NoisePairs == { <<0, 0>>, <<-1500, 400>>, <<1500, -1500>> }

(***************************************************************************)
(* ber.cpp: compute_ber and compute_ber_seeded.  snr_db is counted in      *)
(* tenths of a dB.  A returned double is a fraction <<num, den>>: -1.0 is  *)
(* <<-1, 1>>, 0.0 is <<0, 1>>, errors / num_bits is <<errors, num_bits>>.  *)
(***************************************************************************)
SNR_DB_LIMIT == 500         \* 50.0 dB
MAX_NUM_BITS == 100000000   \* 100000000LL

\* the % of C++: the remainder has the sign of the dividend
CRem(a, b) == IF a >= 0 THEN a % b ELSE -((-a) % b)

\* checks that compare the request with the cap before the adjustment
compute_ber_checks_cap_first(mod_order, snr_db, num_bits) ==
    IF mod_order # 2 /\ mod_order # 4 /\ mod_order # 16
    THEN [go |-> FALSE, ret |-> <<-1, 1>>, num_bits |-> num_bits]
    ELSE IF snr_db < -SNR_DB_LIMIT \/ snr_db > SNR_DB_LIMIT
    THEN [go |-> FALSE, ret |-> <<-1, 1>>, num_bits |-> num_bits]
    ELSE IF num_bits > MAX_NUM_BITS
    THEN [go |-> FALSE, ret |-> <<-1, 1>>, num_bits |-> num_bits]
    ELSE LET bits_per_sym == Log2Floor(mod_order)
             adjusted == IF CRem(num_bits, bits_per_sym) # 0
                         THEN num_bits - CRem(num_bits, bits_per_sym)
                         ELSE num_bits
         IN IF adjusted <= 0
            THEN [go |-> FALSE, ret |-> <<0, 1>>, num_bits |-> adjusted]
            ELSE [go |-> TRUE, ret |-> <<0, 1>>, num_bits |-> adjusted]

\* The checks at the head of compute_ber.  go: whether the simulation runs;
\* num_bits: the parameter as the checks leave it.
compute_ber_checks(mod_order, snr_db, num_bits) ==
    IF mod_order # 2 /\ mod_order # 4 /\ mod_order # 16
    THEN [go |-> FALSE, ret |-> <<-1, 1>>, num_bits |-> num_bits]
    ELSE IF snr_db < -SNR_DB_LIMIT \/ snr_db > SNR_DB_LIMIT
    THEN [go |-> FALSE, ret |-> <<-1, 1>>, num_bits |-> num_bits]
    ELSE LET bits_per_sym == Log2Floor(mod_order)
             adjusted == IF CRem(num_bits, bits_per_sym) # 0
                         THEN num_bits - CRem(num_bits, bits_per_sym)
                         ELSE num_bits
         IN IF adjusted <= 0
            THEN [go |-> FALSE, ret |-> <<0, 1>>, num_bits |-> adjusted]
            ELSE IF adjusted > MAX_NUM_BITS
            THEN [go |-> FALSE, ret |-> <<-1, 1>>, num_bits |-> adjusted]
            ELSE [go |-> TRUE, ret |-> <<0, 1>>, num_bits |-> adjusted]

\* the same checks at the head of compute_ber_seeded
compute_ber_seeded_checks(mod_order, snr_db, num_bits) ==
    IF mod_order # 2 /\ mod_order # 4 /\ mod_order # 16
    THEN [go |-> FALSE, ret |-> <<-1, 1>>, num_bits |-> num_bits]
    ELSE IF snr_db < -SNR_DB_LIMIT \/ snr_db > SNR_DB_LIMIT
    THEN [go |-> FALSE, ret |-> <<-1, 1>>, num_bits |-> num_bits]
    ELSE LET bits_per_sym == Log2Floor(mod_order)
             adjusted == IF CRem(num_bits, bits_per_sym) # 0
                         THEN num_bits - CRem(num_bits, bits_per_sym)
                         ELSE num_bits
         IN IF adjusted <= 0
            THEN [go |-> FALSE, ret |-> <<0, 1>>, num_bits |-> adjusted]
            ELSE IF adjusted > MAX_NUM_BITS
            THEN [go |-> FALSE, ret |-> <<-1, 1>>, num_bits |-> adjusted]
            ELSE [go |-> TRUE, ret |-> <<0, 1>>, num_bits |-> adjusted]

\* s += cdouble(noise, noise) on every symbol
AddNoise(symbols, noise) ==
    [i \in DOMAIN symbols |->
        <<symbols[i][1] + noise[i][1], symbols[i][2] + noise[i][2]>>]

\* transform_reduce(bits.begin(), bits.end(), rx_bits.begin(), 0LL, plus, not_equal_to)
CountErrors(bits, rx_bits) ==
    Cardinality({i \in DOMAIN bits : bits[i] # rx_bits[i]})

\* a run that divides the error count by the number of symbols
Transmit_per_symbol(mod_order, num_bits, bits, noise) ==
    LET symbols == modulate(bits, mod_order)
        rx_bits == demodulate(AddNoise(symbols, noise), mod_order)
        errors  == CountErrors(bits, rx_bits)
    IN [go |-> TRUE, ret |-> <<errors, Size(symbols)>>, num_bits |-> num_bits,
        tx_len |-> Size(bits), rx_len |-> Size(rx_bits), errors |-> errors]

\* modulate, add the noise, demodulate, count, divide
Transmit(mod_order, num_bits, bits, noise) ==
    LET symbols == modulate(bits, mod_order)
        rx_bits == demodulate(AddNoise(symbols, noise), mod_order)
        errors  == CountErrors(bits, rx_bits)
    IN [go |-> TRUE, ret |-> <<errors, num_bits>>, num_bits |-> num_bits,
        tx_len |-> Size(bits), rx_len |-> Size(rx_bits), errors |-> errors]

MaxBerBits == 4     \* longest frame simulated bit by bit

\* A frame longer than MaxBerBits is not followed bit by bit: the model
\* keeps its lengths and the error-free run.
LongFrame(num_bits) ==
    [go |-> TRUE, ret |-> <<0, num_bits>>, num_bits |-> num_bits,
     tx_len |-> num_bits, rx_len |-> num_bits, errors |-> 0]

\* a call that returned from its checks
Refused(c) ==
    [go |-> FALSE, ret |-> c.ret, num_bits |-> c.num_bits,
     tx_len |-> 0, rx_len |-> 0, errors |-> 0]

\* compute_ber; bits and noise are what the random_device-seeded generators
\* deliver in this call
compute_ber(mod_order, snr_db, num_bits, bits, noise) ==
    LET c == compute_ber_checks(mod_order, snr_db, num_bits)
    IN IF ~c.go THEN Refused(c)
       ELSE IF c.num_bits > MaxBerBits THEN LongFrame(c.num_bits)
       ELSE Transmit(mod_order, c.num_bits, bits, noise)

\* the draws compute_ber may see for an adjusted length: <<bits, noise>>
EntropyDraws(mod_order, num_bits) ==
    IF num_bits > MaxBerBits
    THEN { <<EmptyBuf, EmptySymbols>> }
    ELSE BitArrays(num_bits)
         \X [0..((num_bits \div Log2Floor(mod_order)) - 1) -> NoisePairs]

\* a generator that takes its seed from random_device, as compute_ber does
seeded_gen_entropy(seed, rd) == mt19937_64(rd)

\* mt19937_64 gen(seed); rd is what random_device would deliver in this call
seeded_gen(seed, rd) == mt19937_64(seed)

\* compute_ber_seeded
compute_ber_seeded(mod_order, snr_db, num_bits, seed, rd, re_first) ==
    LET c == compute_ber_seeded_checks(mod_order, snr_db, num_bits)
    IN IF ~c.go THEN Refused(c)
       ELSE IF c.num_bits > MaxBerBits THEN LongFrame(c.num_bits)
       ELSE LET gen     == seeded_gen(seed, rd)
                bits    == [i \in 0..(c.num_bits - 1) |-> bit_dist(gen, i + 1)]
                num_sym == c.num_bits \div Log2Floor(mod_order)
                noise   == [j \in 0..(num_sym - 1) |->
                              SeededNoise(gen, c.num_bits, j, re_first)]
            IN Transmit(mod_order, c.num_bits, bits, noise)

(***************************************************************************)
(* Calls of compute_ber and compute_ber_seeded: one call in a fresh        *)
(* process, over the whole range of arguments.                             *)
(***************************************************************************)
MaxSeed == 2        \* largest seed

BerModOrders == {0, 2, 3, 4, 16}
BerSnrs == {-SNR_DB_LIMIT - 1, -SNR_DB_LIMIT, 0, SNR_DB_LIMIT, SNR_DB_LIMIT + 1}
BerNumBits ==
    ((-5)..MaxBerBits) \cup ((MAX_NUM_BITS - 1)..(MAX_NUM_BITS + 4))

\* the record of a returned call
BerReturned(fn, a, r) ==
    [pc |-> "returned", fn |-> fn, args |-> a, re_first |-> ber.re_first,
     go |-> r.go, ret |-> r.ret, num_bits |-> r.num_bits, tx_len |-> r.tx_len,
     rx_len |-> r.rx_len, errors |-> r.errors,
     first |-> ber.first, other_since |-> ber.other_since]

ComputeBerCall ==
    /\ ber.pc = "idle"
    /\ \E mod_order \in BerModOrders, snr_db \in BerSnrs, num_bits \in BerNumBits :
         LET c == compute_ber_checks(mod_order, snr_db, num_bits)
             a == [mod_order |-> mod_order, snr_db |-> snr_db,
                   num_bits |-> num_bits, seed |-> 0]
         IN \E d \in (IF c.go THEN EntropyDraws(mod_order, c.num_bits)
                      ELSE { <<EmptyBuf, EmptySymbols>> }) :
              ber' = BerReturned("compute_ber", a,
                                 compute_ber(mod_order, snr_db, num_bits, d[1], d[2]))
    /\ UNCHANGED <<state_table_initialized, enc, vit, md, cber, threads, est>>

ComputeBerSeededCall ==
    /\ ber.pc = "idle"
    /\ \E mod_order \in BerModOrders, snr_db \in BerSnrs, num_bits \in BerNumBits,
          seed \in 0..MaxSeed, rd \in (0..3) :
         LET a == [mod_order |-> mod_order, snr_db |-> snr_db,
                   num_bits |-> num_bits, seed |-> seed]
         IN ber' = BerReturned("compute_ber_seeded", a,
                               compute_ber_seeded(mod_order, snr_db, num_bits, seed,
                                                  rd, ber.re_first))
    /\ UNCHANGED <<state_table_initialized, enc, vit, md, cber, threads, est>>

InitBer ==
    /\ state_table_initialized = FALSE
    /\ enc = Idle.enc
    /\ vit = Idle.vit
    /\ md = Idle.md
    /\ ber \in { [Idle.ber EXCEPT !.re_first = b] : b \in BOOLEAN }
    /\ cber = Idle.cber
    /\ threads = Idle.threads
    /\ est = Idle.est

SpecBer == InitBer /\ [][ComputeBerCall \/ ComputeBerSeededCall]_vars

\* what the claim's order of checks gives for the arguments: the value
\* returned by a check, or the number of bits to simulate
ExpectedOutcome(a) ==
    LET k        == CASE a.mod_order = 2 -> 1 [] a.mod_order = 4 -> 2 [] OTHER -> 4
        adjusted == a.num_bits - (a.num_bits % k)
    IN IF a.mod_order \notin {2, 4, 16} THEN [run |-> FALSE, ret |-> <<-1, 1>>]
       ELSE IF a.snr_db < -500 \/ a.snr_db > 500 THEN [run |-> FALSE, ret |-> <<-1, 1>>]
       ELSE IF adjusted <= 0 THEN [run |-> FALSE, ret |-> <<0, 1>>]
       ELSE IF adjusted > 10 ^ 8 THEN [run |-> FALSE, ret |-> <<-1, 1>>]
       ELSE [run |-> TRUE, bits |-> adjusted]

\* C7: compute_ber and compute_ber_seeded check in the same order: invalid M
\* gives -1, then an SNR outside [-50, 50] gives -1, then num_bits is rounded
\* down to a multiple of k, then an adjusted count <= 0 gives 0, then an
\* adjusted count > 10^8 gives -1, and otherwise the simulation runs over
\* exactly the adjusted number of bits.
C7_ValidationOrder ==
    ber.pc = "returned" =>
        LET e == ExpectedOutcome(ber.args)
        IN IF e.run
           THEN /\ ber.go
                /\ ber.num_bits = e.bits
                /\ ber.tx_len = e.bits
                /\ ber.ret[2] = e.bits
           ELSE /\ ~ber.go
                /\ ber.ret = e.ret

\* a seeded QPSK call asked for 10^8 + 1 bits and ran over 10^8 of them
C7_Witness ==
    /\ ber.pc = "returned"
    /\ ber.fn = "compute_ber_seeded"
    /\ ber.args.mod_order = 4
    /\ ber.args.num_bits = MAX_NUM_BITS + 1
    /\ ber.go
    /\ ber.num_bits = MAX_NUM_BITS

\* C8: compute_ber returns -1 or a value in [0, 1]; on a run that passes the
\* checks the demodulated sequence is as long as the transmitted one and the
\* error count lies between 0 and the adjusted num_bits.
C8_BerRange ==
    (ber.pc = "returned" /\ ber.fn = "compute_ber") =>
        /\ \/ ber.ret = <<-1, 1>>
           \/ ber.ret[2] > 0 /\ 0 <= ber.ret[1] /\ ber.ret[1] <= ber.ret[2]
        /\ ber.go => /\ ber.rx_len = ber.tx_len
                     /\ 0 <= ber.errors
                     /\ ber.errors <= ber.num_bits
                     /\ ber.ret = <<ber.errors, ber.num_bits>>

\* a 16-QAM run in which noise made some, but not all, of the bits wrong
C8_Witness ==
    /\ ber.pc = "returned"
    /\ ber.fn = "compute_ber"
    /\ ber.args.mod_order = 16
    /\ ber.go
    /\ ber.errors > 0
    /\ ber.errors < ber.num_bits

(***************************************************************************)
(* Repeated calls in one process: compute_ber_seeded among calls of        *)
(* compute_ber and of init_conv_state_table, in any order.  `first` keeps  *)
(* the arguments and the result of the first seeded call.                  *)
(***************************************************************************)
RepeatArgs ==
    { [mod_order |-> 2, snr_db |-> 0, num_bits |-> 2],
      [mod_order |-> 4, snr_db |-> 0, num_bits |-> 3],
      [mod_order |-> 16, snr_db |-> 0, num_bits |-> 4] }

RepeatComputeBer ==
    /\ \E a \in RepeatArgs :
         LET c == compute_ber_checks(a.mod_order, a.snr_db, a.num_bits)
         IN \E d \in EntropyDraws(a.mod_order, c.num_bits) :
              ber' = [BerReturned("compute_ber",
                                  [mod_order |-> a.mod_order, snr_db |-> a.snr_db,
                                   num_bits |-> a.num_bits, seed |-> 0],
                                  compute_ber(a.mod_order, a.snr_db, a.num_bits,
                                              d[1], d[2]))
                        EXCEPT !.other_since = ber.first.set]
    /\ UNCHANGED <<state_table_initialized, enc, vit, md, cber, threads, est>>

RepeatComputeBerSeeded ==
    /\ \E a \in RepeatArgs, seed \in 0..MaxSeed, rd \in (0..3) :
         LET sa == [mod_order |-> a.mod_order, snr_db |-> a.snr_db,
                    num_bits |-> a.num_bits, seed |-> seed]
             r  == compute_ber_seeded(a.mod_order, a.snr_db, a.num_bits, seed, rd,
                                      ber.re_first)
         IN ber' = [BerReturned("compute_ber_seeded", sa, r)
                      EXCEPT !.first = IF ber.first.set THEN ber.first
                                       ELSE [set |-> TRUE, args |-> sa, ret |-> r.ret]]
    /\ UNCHANGED <<state_table_initialized, enc, vit, md, cber, threads, est>>

\* a call of init_conv_state_table, as test_convolutional_coding makes
InitConvStateTableCall ==
    /\ state_table_initialized' =
         init_conv_state_table(state_table, state_table_initialized).initialized
    /\ ber' = [ber EXCEPT !.other_since = ber.first.set]
    /\ UNCHANGED <<enc, vit, md, cber, threads, est>>

SpecSeeded ==
    InitBer /\ [][\/ RepeatComputeBer
                  \/ RepeatComputeBerSeeded
                  \/ InitConvStateTableCall]_vars

\* C9: two calls of compute_ber_seeded with the same (mod_order, snr_db,
\* num_bits, seed) return the same value, whatever calls ran before or
\* between them.
C9_SeededDeterminism ==
    (/\ ber.pc = "returned"
     /\ ber.fn = "compute_ber_seeded"
     /\ ber.first.set
     /\ ber.first.args = ber.args)
    => ber.ret = ber.first.ret

\* a seeded call repeats the first one after other calls ran in between,
\* and both saw bit errors
C9_Witness ==
    /\ ber.pc = "returned"
    /\ ber.fn = "compute_ber_seeded"
    /\ ber.first.set
    /\ ber.first.args = ber.args
    /\ ber.other_since
    /\ state_table_initialized
    /\ ber.errors > 0
    /\ ber.ret = ber.first.ret

(***************************************************************************)
(* ber.cpp: compute_ber_coded.  The long long num_bits is a record         *)
(* [hi, lo] that stands for hi * 2^30 + lo with 0 <= lo < 2^30.  The       *)
(* sentinels are fractions over 100: -0.15 is <<-15, 100>>.                *)
(***************************************************************************)
LongLong(v) ==
    IF v < 0 THEN [hi |-> -1, lo |-> 2 ^ 30 + v] ELSE [hi |-> 0, lo |-> v]

\* static_cast<int>(num_bits): the low 32 bits, as a signed number
Int32Cast(n) ==
    LET q == n.hi % 4
    IN IF q >= 2 THEN (q - 4) * 2 ^ 30 + n.lo ELSE q * 2 ^ 30 + n.lo

CODED_LEN_CAP == 200000000
constraint_tail == 6

Sentinel(hundredths) == <<hundredths, 100>>

\* a driver that leaves an odd 16-QAM count as it is
Reduce16QAM_none(mod_order, info_bits_count) == info_bits_count

\* info_bits_count after `if (mod_order == 16 && info_bits_count % 2 != 0) --info_bits_count`
Reduce16QAM(mod_order, info_bits_count) ==
    IF mod_order = 16 /\ CRem(info_bits_count, 2) # 0
    THEN info_bits_count - 1
    ELSE info_bits_count

\* pow(10.0, snr_db / 10.0) for the whole tens of dB the model uses, as the
\* ratio <<numerator, denominator>>
Pow10Db(snr_db) ==
    IF snr_db >= 0 THEN <<10 ^ (snr_db \div 100), 1>>
    ELSE <<1, 10 ^ ((-snr_db) \div 100)>>

\* x * llr_scale for a ratio llr_scale, rounded to the grid
TimesScale(x, llr_scale) == RoundDiv(x * llr_scale[1], llr_scale[2])

\* a mapper that gives the first two bits of a 16-QAM group to the real
\* axis and the last two to the imaginary axis
CodedSymbolsPaired(coded_bits, coded_len, mod_order) ==
    IF mod_order = 2
    THEN [i \in 0..(coded_len - 1) |-> <<Antipodal(coded_bits[i]), 0>>]
    ELSE IF mod_order = 4
    THEN [j \in 0..(((coded_len + 1) \div 2) - 1) |->
            <<Mul(Antipodal(coded_bits[2 * j]), scale_qpsk),
              Mul(Antipodal(coded_bits[2 * j + 1]), scale_qpsk)>>]
    ELSE [j \in 0..((coded_len \div 4) - 1) |->
            <<Mul(get_level(coded_bits[4 * j], coded_bits[4 * j + 1]), scale_16qam),
              Mul(get_level(coded_bits[4 * j + 2], coded_bits[4 * j + 3]), scale_16qam)>>]

\* the symbols of the coded bits, with the inline mappers of the driver
CodedSymbols(coded_bits, coded_len, mod_order) ==
    IF mod_order = 2
    THEN [i \in 0..(coded_len - 1) |-> <<Antipodal(coded_bits[i]), 0>>]
    ELSE IF mod_order = 4
    THEN [j \in 0..(((coded_len + 1) \div 2) - 1) |->
            <<Mul(Antipodal(coded_bits[2 * j]), scale_qpsk),
              Mul(Antipodal(coded_bits[2 * j + 1]), scale_qpsk)>>]
    ELSE [j \in 0..((coded_len \div 4) - 1) |->
            <<Mul(get_level(coded_bits[4 * j], coded_bits[4 * j + 2]), scale_16qam),
              Mul(get_level(coded_bits[4 * j + 1], coded_bits[4 * j + 3]), scale_16qam)>>]

\* log(exp(a - m) + exp(b - m)) with m = max(a, b), by the gap |a - b|: the
\* value of log(1 + exp(-gap)) on a grid of gaps, in units of 1/FP
LogCorrection(gap) ==
    IF gap < 500 THEN 576
    ELSE IF gap < 1000 THEN 386
    ELSE IF gap < 1500 THEN 252
    ELSE IF gap < 2000 THEN 160
    ELSE IF gap < 3000 THEN 79
    ELSE IF gap < 4500 THEN 23
    ELSE 0

lse2(a, b) ==
    IF a >= b THEN a + LogCorrection(a - b) ELSE b + LogCorrection(b - a)

\* the conventional LLRs log P(bit = 0) - log P(bit = 1), not negated
fill_llrs_conventional(x, llr_scale) ==
    LET metric == [k \in 0..3 |->
                     LET d == x - qam_levels[k]
                     IN -RoundDiv(RoundDiv(d * d, FP) * llr_scale[1], 2 * llr_scale[2])]
    IN << lse2(metric[0], metric[1]) - lse2(metric[2], metric[3]),
          lse2(metric[0], metric[2]) - lse2(metric[1], metric[3]) >>

\* fill_llrs: <<llr_msb, llr_lsb>> of one 4-PAM component x; llr_scale is
\* 2 / n0, so that d * d / two_sigma2 is d * d * llr_scale / 2
fill_llrs(x, llr_scale) ==
    LET metric == [k \in 0..3 |->
                     LET d == x - qam_levels[k]
                     IN -RoundDiv(RoundDiv(d * d, FP) * llr_scale[1], 2 * llr_scale[2])]
        llr_std_msb == lse2(metric[0], metric[1]) - lse2(metric[2], metric[3])
        llr_std_lsb == lse2(metric[0], metric[2]) - lse2(metric[1], metric[3])
    IN << -llr_std_msb, -llr_std_lsb >>

\* The LLR vector: coded_len zeros, then the stores of the loop of the
\* modulation.  written: the indices the loop stores to.
CodedLLRs(symbols, coded_len, mod_order, llr_scale) ==
    LET per == IF mod_order = 2 THEN 1 ELSE IF mod_order = 4 THEN 2 ELSE 4
        written == IF mod_order = 2 THEN 0..(coded_len - 1)
                   ELSE 0..(per * Size(symbols) - 1)
        value(i) ==
            LET sym == symbols[i \div per]
            IN IF mod_order = 2 THEN TimesScale(-sym[1], llr_scale)
               ELSE IF mod_order = 4
               THEN (IF i % 2 = 0 THEN TimesScale(-sym[1], llr_scale)
                     ELSE TimesScale(-sym[2], llr_scale))
               ELSE LET I == fill_llrs(Div(sym[1], scale_16qam), llr_scale)
                        Q == fill_llrs(Div(sym[2], scale_16qam), llr_scale)
                    IN CASE i % 4 = 0 -> I[1]
                         [] i % 4 = 1 -> Q[1]
                         [] i % 4 = 2 -> I[2]
                         [] OTHER     -> Q[2]
    IN [llr |-> [i \in (0..(coded_len - 1)) \cup written |->
                    IF i \in written THEN value(i) ELSE 0],
        written |-> written]

\* a call that returned before the simulation
CodedRefused(ret) ==
    [accepted |-> FALSE, ret |-> ret, info_bits_count |-> 0, coded_len |-> 0,
     num_symbols |-> 0, llr_written |-> {}, llr_size |-> 0, dec_status |-> 0,
     decoded_len |-> 0, cmp_len |-> 0, bit_errors |-> 0, initialized |-> FALSE]

\* the report of a call that reached the simulation, before the stages fill it
CodedAccepted(info_bits_count, coded_len, initialized) ==
    [accepted |-> TRUE, ret |-> <<0, 1>>,
     info_bits_count |-> info_bits_count, coded_len |-> coded_len,
     num_symbols |-> 0, llr_written |-> {}, llr_size |-> 0,
     dec_status |-> 0, decoded_len |-> 0, cmp_len |-> 0,
     bit_errors |-> 0, initialized |-> initialized]

\* after the decode: the checks of its status and length, then the count of
\* the differing bits over cmp_len = min(decoded_len, info_bits_count)
CodedCompare(run, orig_bits, info_bits_count, d) ==
    LET decoded == [run EXCEPT !.dec_status = d.ret,
                               !.decoded_len = d.decoded_len,
                               !.initialized = d.initialized]
        cmp_len == IF d.decoded_len < info_bits_count THEN d.decoded_len
                   ELSE info_bits_count
        bit_errors ==
            Cardinality({i \in 0..(cmp_len - 1) : orig_bits[i] # d.decoded_bits[i]})
    IN IF d.ret # 0
       THEN [decoded EXCEPT !.ret = Sentinel((-10 - d.ret) * 100)]
       ELSE IF d.decoded_len <= 0 \/ d.decoded_len > info_bits_count
       THEN [decoded EXCEPT !.ret = Sentinel(-30)]
       ELSE [decoded EXCEPT !.cmp_len = cmp_len,
                            !.bit_errors = bit_errors,
                            !.ret = <<bit_errors, cmp_len>>]

\* the decode of the LLR vector l
CodedDecode(run, orig_bits, info_bits_count, coded_len, l, tbl, initialized) ==
    CodedCompare([run EXCEPT !.llr_written = l.written, !.llr_size = Size(l.llr)],
                 orig_bits, info_bits_count,
                 viterbi_decode([received_len |-> coded_len, llr_null |-> FALSE,
                                 bits_null |-> FALSE, len_null |-> FALSE,
                                 decoded_bits |-> EmptyBuf, decoded_len |-> 0],
                                l.llr, tbl, initialized))

\* the noise on the symbols and the LLRs of the noisy symbols;
\* esno_lin = ebno_lin * 0.5 * k, n0 = 1 / esno_lin, llr_scale = 2 / n0
CodedChannel(run, orig_bits, mod_order, snr_db, info_bits_count, coded_len, gen, re_first, symbols, tbl, initialized) ==
    CodedDecode([run EXCEPT !.num_symbols = Size(symbols)],
                orig_bits, info_bits_count, coded_len,
                CodedLLRs(AddNoise(symbols,
                                   [j \in DOMAIN symbols |->
                                      SeededNoise(gen, info_bits_count, j, re_first)]),
                          coded_len, mod_order,
                          << Pow10Db(snr_db)[1]
                               * (IF mod_order = 2 THEN 1 ELSE IF mod_order = 4 THEN 2 ELSE 4),
                             Pow10Db(snr_db)[2] >>),
                tbl, initialized)

\* after the encode e of orig_bits: its check, then the mapping to symbols
CodedMap(orig_bits, mod_order, snr_db, info_bits_count, coded_len, gen, re_first, e) ==
    IF e.ret # 0 \/ e.coded_len # coded_len
    THEN [CodedAccepted(info_bits_count, coded_len, e.initialized)
            EXCEPT !.ret = Sentinel(-100)]
    ELSE CodedChannel(CodedAccepted(info_bits_count, coded_len, e.initialized),
                      orig_bits, mod_order, snr_db, info_bits_count, coded_len,
                      gen, re_first,
                      CodedSymbols(e.coded_bits, coded_len, mod_order),
                      e.table, e.initialized)

\* the encode of the info bits orig_bits
CodedEncode(orig_bits, mod_order, snr_db, info_bits_count, coded_len, gen, tbl, initialized, re_first) ==
    CodedMap(orig_bits, mod_order, snr_db, info_bits_count, coded_len, gen, re_first,
             convolutional_encode(
                 [info_bits |-> orig_bits, info_len |-> info_bits_count,
                  info_null |-> FALSE, coded_null |-> FALSE,
                  len_null |-> FALSE, coded_bits |-> EmptyBuf,
                  coded_len |-> 0], tbl, initialized))

\* from the generation of the info bits to the return
CodedRun(mod_order, snr_db, info_bits_count, coded_len, seed, tbl, initialized, re_first) ==
    CodedEncode([i \in 0..(info_bits_count - 1) |-> bit_dist(mt19937(seed), i + 1)],
                mod_order, snr_db, info_bits_count, coded_len, mt19937(seed),
                tbl, initialized, re_first)

\* compute_ber_coded
compute_ber_coded(mod_order, snr_db, num_bits, seed, tbl, initialized, re_first) ==
    IF mod_order # 2 /\ mod_order # 4 /\ mod_order # 16
    THEN [CodedRefused(compute_ber_checks(mod_order, snr_db, num_bits.lo).ret)
            EXCEPT !.initialized = initialized]
    ELSE LET requested       == Int32Cast(num_bits)
             info_bits_count == Reduce16QAM(mod_order, requested)
             coded_len       == 2 * (info_bits_count + constraint_tail)
             refused(ret)    == [CodedRefused(ret) EXCEPT !.initialized = initialized]
         IN IF info_bits_count # requested /\ info_bits_count <= 0
            THEN refused(Sentinel(-15))
            ELSE IF info_bits_count <= 0 THEN refused(Sentinel(-10))
            ELSE IF coded_len <= 0 THEN refused(Sentinel(-20))
            ELSE IF coded_len > CODED_LEN_CAP THEN refused(Sentinel(-25))
            ELSE CodedRun(mod_order, snr_db, info_bits_count, coded_len, seed,
                          tbl, initialized, re_first)

(***************************************************************************)
(* Calls of compute_ber_coded: one call in a fresh process.                *)
(***************************************************************************)
MaxCodedBits == 3       \* most info bits requested from a run that is simulated

\* snr_db in tenths of a dB: 0 dB, 10 dB, and -60 dB, which is below -50 dB
ComputeBerCodedCall ==
    /\ cber.pc = "idle"
    /\ \E mod_order \in (valid_mod_orders \cup {3}), snr_db \in {0, 100, -600},
          num_bits \in { LongLong(v) : v \in (-1)..MaxCodedBits }
                         \cup { LongLong(CODED_LEN_CAP \div 2 - 4),
                                [hi |-> 4, lo |-> 2] },
          seed \in 0..MaxSeed :
         /\ (mod_order \notin valid_mod_orders) => num_bits.hi = 0
         /\ LET r == compute_ber_coded(mod_order, snr_db, num_bits, seed, state_table,
                                       state_table_initialized, cber.re_first)
            IN /\ cber' = [pc |-> "returned", re_first |-> cber.re_first,
                           args |-> [mod_order |-> mod_order, snr_db |-> snr_db,
                                     num_bits |-> num_bits, seed |-> seed],
                           res |-> r]
               /\ state_table_initialized' = r.initialized
    /\ UNCHANGED <<enc, vit, md, ber, threads, est>>

InitCoded ==
    /\ state_table_initialized = FALSE
    /\ enc = Idle.enc
    /\ vit = Idle.vit
    /\ md = Idle.md
    /\ ber = Idle.ber
    /\ cber \in { [Idle.cber EXCEPT !.re_first = b] : b \in BOOLEAN }
    /\ threads = Idle.threads
    /\ est = Idle.est

SpecCoded == InitCoded /\ [][ComputeBerCodedCall]_vars

\* the info-bit count of the claim: the request as an int, less one for an
\* odd 16-QAM request
ClaimedL(a) ==
    LET n == Int32Cast(a.num_bits)
    IN IF a.mod_order = 16 /\ n % 2 = 1 THEN n - 1 ELSE n

\* C6: for M in {2, 4, 16} and an info-bit count L that passes validation,
\* coded_len = 2(L+6) is a multiple of the bits per symbol, every coded bit
\* is mapped into a symbol, exactly coded_len LLRs are written, the decoder
\* reports decoded_len = L, the errors are counted over exactly L bits, and
\* none of the sentinels -1.0, -10-n, -0.3 is returned.
C6_CodedPipelineLengths ==
    (/\ cber.pc = "returned"
     /\ cber.args.mod_order \in {2, 4, 16}
     /\ ClaimedL(cber.args) >= 1
     /\ 2 * (ClaimedL(cber.args) + 6) <= 200000000)
    => LET L == ClaimedL(cber.args)
           k == CASE cber.args.mod_order = 2 -> 1
                  [] cber.args.mod_order = 4 -> 2
                  [] OTHER -> 4
           r == cber.res
       IN /\ r.accepted
          /\ r.coded_len = 2 * (L + 6)
          /\ r.coded_len % k = 0
          /\ r.num_symbols * k = r.coded_len
          /\ r.llr_size = r.coded_len
          /\ r.llr_written = 0..(r.coded_len - 1)
          /\ r.dec_status = 0
          /\ r.decoded_len = L
          /\ r.cmp_len = L
          /\ r.ret = <<r.bit_errors, L>>
          /\ 0 <= r.bit_errors /\ r.bit_errors <= L

\* a 16-QAM run asked for 3 info bits: it ran over 2, in 4 symbols
C6_Witness ==
    /\ cber.pc = "returned"
    /\ cber.args.mod_order = 16
    /\ cber.args.num_bits = LongLong(3)
    /\ cber.res.accepted
    /\ cber.res.info_bits_count = 2
    /\ cber.res.num_symbols = 4
    /\ cber.res.decoded_len = 2
    /\ cber.res.cmp_len = 2

\* C13: for M in {2, 4, 16}, a call whose 64-bit num_bits gives a coded
\* length 2(num_bits + 6) above 2 * 10^8, also when num_bits lies at or beyond
\* the range of a 32-bit int, returns a negative sentinel and simulates
\* nothing.
C13_CodedCapEnforced ==
    (/\ cber.pc = "returned"
     /\ cber.args.mod_order \in {2, 4, 16}
     /\ \/ cber.args.num_bits.hi > 0
        \/ /\ cber.args.num_bits.hi = 0
           /\ 2 * (cber.args.num_bits.lo + 6) > CODED_LEN_CAP)
    => /\ ~cber.res.accepted
       /\ cber.res.ret[1] < 0

\* C14: for M in {2, 4, 16} and a valid info-bit count, a call with snr_db
\* outside [-50, +50] returns a negative value and simulates nothing.
C14_CodedSnrValidated ==
    (/\ cber.pc = "returned"
     /\ cber.args.mod_order \in {2, 4, 16}
     /\ cber.args.num_bits.hi = 0
     /\ ClaimedL(cber.args) >= 1
     /\ 2 * (ClaimedL(cber.args) + 6) <= CODED_LEN_CAP
     /\ (cber.args.snr_db < -SNR_DB_LIMIT \/ cber.args.snr_db > SNR_DB_LIMIT))
    => /\ ~cber.res.accepted
       /\ cber.res.ret[1] < 0

(***************************************************************************)
(* Calls of the two coding entry points, each followed to its return, in a *)
(* process whose table may or may not have been built before.              *)
(***************************************************************************)

EncodeFrameCall ==
    /\ enc.pc = "idle"
    /\ ConvolutionalEncodeCall

\* received_llr of a whole-call decode: a strong frame or a frame with erasures
DecodeFrameReturn(a, r) ==
    /\ vit' = [Idle.vit EXCEPT !.pc = "returned", !.args = a,
                               !.decoded_bits = r.decoded_bits,
                               !.decoded_len = r.decoded_len,
                               !.ret = r.ret]
    /\ state_table_initialized' = r.initialized

DecodeFrameCall ==
    /\ vit.pc = "idle"
    /\ \E a \in VitCalls :
       \E received_llr \in
            { [i \in 0..(a.received_len - 1) |-> IDEAL_C],
              [i \in 0..(a.received_len - 1) |->
                 IF i % 2 = 0 THEN -IDEAL_C ELSE 0] } :
         DecodeFrameReturn(a, viterbi_decode(a, received_llr, state_table,
                                             state_table_initialized))
    /\ UNCHANGED <<enc, md, ber, cber, threads, est>>

SpecCoding ==
    Init /\ [][InitConvStateTableCall \/ EncodeFrameCall \/ DecodeFrameCall]_vars

\* C11: a call of convolutional_encode or viterbi_decode that returns a
\* non-zero status leaves the caller's output bit buffer and output length
\* variable as they were before the call.
C11_FailedCallWritesNothing ==
    /\ (enc.pc = "returned" /\ enc.res.ret # 0) =>
          /\ enc.res.coded_bits = enc.args.coded_bits
          /\ enc.res.coded_len = enc.args.coded_len
          /\ enc.res.written = {}
    /\ (vit.pc = "returned" /\ vit.ret # 0) =>
          /\ vit.decoded_bits = vit.args.decoded_bits
          /\ vit.decoded_len = vit.args.decoded_len

\* a decode of twelve LLRs into a buffer in use was refused with -3 after it
\* built the table, and an encode of no bits into a buffer in use was refused
C11_Witness ==
    /\ vit.pc = "returned"
    /\ vit.ret = -3
    /\ vit.args.decoded_bits = UsedBuf
    /\ vit.decoded_len = 99
    /\ state_table_initialized
    /\ enc.pc = "returned"
    /\ enc.res.ret = -1
    /\ enc.args.info_len = 0
    /\ enc.args.coded_bits = UsedBuf
    /\ enc.res.coded_len = 99

(***************************************************************************)
(* Threads that each make one convolutional_encode or viterbi_decode call  *)
(* with valid arguments.  state_table and state_table_initialized are      *)
(* plain statics, so the statements of init_conv_state_table interleave    *)
(* freely; a step below is one of its statements (a loop counts as one     *)
(* step, which removes interleavings and adds none).  The table is         *)
(* followed by the number of stores made to it.                            *)
(***************************************************************************)
\* stores of the loop of coding.cpp:44-60 (next_state and output, two inputs)
\* and of the loop of coding.cpp:63-76 (prev_state and prev_input, two slots)
StoresPerLoop == 2 * 2 * NUM_STATES

\* the argument checks passed: the thread is at the call of
\* init_conv_state_table (coding.cpp:89, coding.cpp:133)
ThreadCall(t) ==
    /\ threads.pc[t] = "idle"
    /\ \E fn \in {"convolutional_encode", "viterbi_decode"} :
         threads' = [threads EXCEPT !.pc[t] = "check", !.fn[t] = fn]
    /\ UNCHANGED <<state_table_initialized, enc, vit, md, ber, cber, est>>

\* if (state_table_initialized) return;
InitCheck(t) ==
    /\ threads.pc[t] = "check"
    /\ threads' = [threads EXCEPT !.pc[t] = IF state_table_initialized
                                            THEN "read" ELSE "fill"]
    /\ UNCHANGED <<state_table_initialized, enc, vit, md, ber, cber, est>>

\* the loop that stores next_state and output
InitFill(t) ==
    /\ threads.pc[t] = "fill"
    /\ threads' = [threads EXCEPT !.pc[t] = "reverse",
                                  !.stores = @ + StoresPerLoop,
                                  !.writers = @ \cup {t}]
    /\ UNCHANGED <<state_table_initialized, enc, vit, md, ber, cber, est>>

\* the loop that stores prev_state and prev_input
InitReverse(t) ==
    /\ threads.pc[t] = "reverse"
    /\ threads' = [threads EXCEPT !.pc[t] = "publish",
                                  !.stores = @ + StoresPerLoop,
                                  !.writers = @ \cup {t}]
    /\ UNCHANGED <<state_table_initialized, enc, vit, md, ber, cber, est>>

\* state_table_initialized = true; and the return to the caller
InitPublish(t) ==
    /\ threads.pc[t] = "publish"
    /\ state_table_initialized' = TRUE
    /\ threads' = [threads EXCEPT !.pc[t] = "read"]
    /\ UNCHANGED <<enc, vit, md, ber, cber, est>>

\* the loops of the caller, which read state_table, and its return
ThreadRead(t) ==
    /\ threads.pc[t] = "read"
    /\ threads' = [threads EXCEPT !.pc[t] = "returned"]
    /\ UNCHANGED <<state_table_initialized, enc, vit, md, ber, cber, est>>

SpecThreads ==
    Init /\ [][\E t \in Threads :
                  \/ ThreadCall(t)
                  \/ InitCheck(t)
                  \/ InitFill(t)
                  \/ InitReverse(t)
                  \/ InitPublish(t)
                  \/ ThreadRead(t)]_vars

\* C12: in every interleaving of concurrent first calls, at most one thread
\* executes the table-building stores, and no store to the table is made
\* once some thread has passed init_conv_state_table and begun reading.
C12_TableWrittenOnce ==
    [][ /\ Cardinality(threads'.writers) <= 1
        /\ (\E t \in Threads : threads.pc[t] \in {"read", "returned"})
              => threads'.stores = threads.stores ]_vars

(***************************************************************************)
(* ber.cpp: estimate_snr.  num_pilots is a long long and is compared as    *)
(* one; the generator is seeded from random_device, so the noise on each   *)
(* pilot is an input of the call.                                          *)
(***************************************************************************)
MAX_PILOTS == 1000000

MaxPilots == 3      \* most pilots followed one by one

\* checks that forget the upper limit on num_pilots
estimate_snr_checks_no_limit(true_snr_db, num_pilots) ==
    IF num_pilots <= 0 THEN FALSE
    ELSE IF true_snr_db < -SNR_DB_LIMIT \/ true_snr_db > SNR_DB_LIMIT THEN FALSE
    ELSE TRUE

\* the three checks at the head of estimate_snr: TRUE when the call goes on
estimate_snr_checks(true_snr_db, num_pilots) ==
    IF num_pilots <= 0 THEN FALSE
    ELSE IF true_snr_db < -SNR_DB_LIMIT \/ true_snr_db > SNR_DB_LIMIT THEN FALSE
    ELSE IF num_pilots > MAX_PILOTS THEN FALSE
    ELSE TRUE

generate_pilots(num_pilots) == [i \in 0..(num_pilots - 1) |-> <<FP, 0>>]

\* std::norm of rx - tx
norm_diff(rx, tx) ==
    RoundDiv((rx[1] - tx[1]) * (rx[1] - tx[1]) + (rx[2] - tx[2]) * (rx[2] - tx[2]), FP)

\* transform_reduce(rx.begin(), rx.end(), tx.begin(), 0.0, plus, norm(rx - tx))
RECURSIVE SumNormDiff(_, _, _)
SumNormDiff(rx, tx, n) ==
    IF n <= 0 THEN 0 ELSE norm_diff(rx[n - 1], tx[n - 1]) + SumNormDiff(rx, tx, n - 1)

\* floor(log10(num / den)) for num, den > 0, within the decades in reach
Log10Floor(num, den) ==
    LET reach == { e \in (-5)..5 : IF e >= 0 THEN num >= den * (10 ^ e)
                                   ELSE num * (10 ^ (-e)) >= den }
    IN IF reach = {} THEN -6 ELSE CHOOSE e \in reach : \A f \in reach : f <= e

\* 10 * log10(x) of the ratio x = <<num, den>>, to the decade below; a zero
\* denominator is 1.0 / 0.0, whose logarithm is +infinity (<<1, 0>>)
linear_to_db(x) ==
    IF x[2] = 0 THEN <<1, 0>> ELSE <<10 * Log10Floor(x[1], x[2]), 1>>

\* The whole call.  noise: the noise pair of every pilot; a run of more than
\* MaxPilots pilots is followed on one pilot that stands for all of them.
estimate_snr(true_snr_db, num_pilots, noise) ==
    IF ~estimate_snr_checks(true_snr_db, num_pilots)
    THEN [validated |-> FALSE, ret |-> <<-999, 1>>, pilots |-> 0, divisor |-> 0,
          rx_pilots |-> EmptySymbols, noise_var |-> 0]
    ELSE LET followed  == IF num_pilots <= MaxPilots THEN num_pilots ELSE 1
             tx_pilots == generate_pilots(followed)
             rx_pilots == AddNoise(tx_pilots, noise)
             noise_var == RoundDiv(SumNormDiff(rx_pilots, tx_pilots, followed), followed)
         IN [validated |-> TRUE, ret |-> linear_to_db(<<FP, noise_var>>),
             pilots |-> (num_pilots \div followed) * Size(rx_pilots),
             divisor |-> num_pilots, rx_pilots |-> rx_pilots, noise_var |-> noise_var]

EstimateSnrCall ==
    /\ est.pc = "idle"
    /\ \E true_snr_db \in {-510, -500, 0, 500, 510},
          num_pilots \in {-50, 0, 1, MAX_PILOTS, MAX_PILOTS + 1} \cup (1..MaxPilots) :
         \E noise \in [0..((IF num_pilots \in 1..MaxPilots THEN num_pilots ELSE 1) - 1)
                         -> NoisePairs] :
           est' = [pc |-> "returned",
                   args |-> [true_snr_db |-> true_snr_db, num_pilots |-> num_pilots],
                   res |-> estimate_snr(true_snr_db, num_pilots, noise)]
    /\ UNCHANGED <<state_table_initialized, enc, vit, md, ber, cber, threads>>

SpecSnr == Init /\ [][EstimateSnrCall]_vars

\* C15: estimate_snr returns -999 exactly when num_pilots is outside
\* [1, 10^6] or true_snr_db is outside [-50, +50]; inside both ranges the
\* estimation runs over exactly num_pilots pilots and the value returned
\* does not come from the validation.
C15_EstimateSnrValidation ==
    est.pc = "returned" =>
        LET a == est.args
            inside == /\ a.num_pilots >= 1 /\ a.num_pilots <= 1000000
                      /\ a.true_snr_db >= -500 /\ a.true_snr_db <= 500
        IN /\ (est.res.ret = <<-999, 1>>) <=> ~inside
           /\ inside => /\ est.res.validated
                        /\ est.res.pilots = a.num_pilots
                        /\ est.res.divisor = a.num_pilots
           /\ ~inside => ~est.res.validated /\ est.res.pilots = 0

\* an estimate over 10^6 pilots at +50 dB, and not the sentinel
C15_Witness ==
    /\ est.pc = "returned"
    /\ est.args.num_pilots = 1000000
    /\ est.args.true_snr_db = 500
    /\ est.res.validated
    /\ est.res.pilots = 1000000
    /\ est.res.ret[2] = 1
    /\ est.res.ret[1] > -999

(***************************************************************************)
(* A 16-QAM frame is modulated, the channel moves one component of one     *)
(* symbol onto an amplitude-adjacent level, and the frame is demodulated.  *)
(***************************************************************************)
\* the level modulate_impl gave component `axis` (1: real, 2: imaginary) of
\* symbol i of a 16-QAM frame
SentLevel(bits, i, axis) ==
    IF axis = 1 THEN get_level(bits[4 * i], bits[4 * i + 2])
    ELSE get_level(bits[4 * i + 1], bits[4 * i + 3])

\* the levels next to a level in amplitude
AdjacentLevels(level) ==
    { l \in { qam_levels[index] : index \in 0..3 } :
        l - level = 2 * FP \/ level - l = 2 * FP }

DemodulateMovedCall ==
    /\ md.pc = "modulated"
    /\ md.mod_order = 16
    /\ \E i \in DOMAIN md.symbols, axis \in {1, 2} :
         \E level \in AdjacentLevels(SentLevel(md.bits, i, axis)) :
           LET received == [md.symbols EXCEPT ![i][axis] = Mul(level, scale_16qam)]
           IN md' = [pc |-> "demodulated", bits |-> md.bits,
                     mod_order |-> md.mod_order, symbols |-> received,
                     rx_bits |-> demodulate(received, md.mod_order),
                     moved |-> [sym |-> i, axis |-> axis, level |-> level]]
    /\ UNCHANGED <<state_table_initialized, enc, vit, ber, cber, threads, est>>

SpecGray == Init /\ [][ModulateCall \/ DemodulateMovedCall]_vars

\* C18: the bit pairs of two amplitude-adjacent levels of the table
\* 00 -> +3, 01 -> +1, 10 -> -3, 11 -> -1 differ in exactly one bit, and a
\* decision that is off by one level on one axis changes exactly one of the
\* four demodulated bits of that symbol, a bit of that axis.
C18_GrayAdjacentLevels ==
    /\ \A p, q \in BOOLEAN \X BOOLEAN :
          (get_level(p[1], p[2]) - get_level(q[1], q[2]) = 2 * FP)
             => B2N(p[1] # q[1]) + B2N(p[2] # q[2]) = 1
    /\ (md.pc = "demodulated" /\ md.mod_order = 16) =>
          LET i == md.moved.sym
              changed == { j \in DOMAIN md.rx_bits : md.rx_bits[j] # md.bits[j] }
              axis_bits == IF md.moved.axis = 1 THEN {4 * i, 4 * i + 2}
                           ELSE {4 * i + 1, 4 * i + 3}
          IN /\ DOMAIN md.rx_bits = 0..(4 * Size(md.symbols) - 1)
             /\ Cardinality(changed) = 1
             /\ changed \subseteq axis_bits

\* the imaginary part of the second symbol was sent at -1 (bits 11) and
\* decided as -3: only the low bit of that axis came back changed
C18_Witness ==
    /\ md.pc = "demodulated"
    /\ md.mod_order = 16
    /\ Size(md.bits) = 8
    /\ md.moved = [sym |-> 1, axis |-> 2, level |-> -3 * FP]
    /\ md.bits[5] /\ md.bits[7]
    /\ md.rx_bits[5] /\ ~md.rx_bits[7]

(***************************************************************************)
(* viterbi_decode on whole frames whose LLRs need not be small.  The code  *)
(* returns before looking at any LLR value, so every double is accepted;   *)
(* the frames here are the ideal LLRs of a codeword with the pair of one   *)
(* stage replaced by another pair: an ideal one, a soft one, or one of     *)
(* magnitude 6e29, whose branch metrics of -1.2e30 lie below NEG_INF.      *)
(***************************************************************************)
\* a finite double of magnitude 6e29, in the units in which NEG_INF is -1e30
LargeLLR == (-NEG_INF \div 10) * 6

\* the record of the returned call: the grids of the forward pass, and the
\* outputs of the traceback
ViterbiFrameReturn(a, received_llr, path) ==
    vit' = [pc |-> "returned", args |-> a,
            received_llr |-> [i \in 1..a.received_len |-> received_llr[i - 1]],
            num_stages |-> a.received_len \div 2,
            info_len |-> a.received_len \div 2 - (CONSTRAINT_LENGTH - 1),
            stage |-> a.received_len \div 2,
            path |-> path,
            decoded_bits |-> Traceback(path, TracebackStart, a.received_len \div 2,
                                       a.received_len \div 2 - (CONSTRAINT_LENGTH - 1),
                                       a.decoded_bits).decoded_bits,
            decoded_len |-> a.received_len \div 2 - (CONSTRAINT_LENGTH - 1),
            ret |-> 0]

ViterbiFrameCall ==
    /\ vit.pc = "idle"
    /\ \E n \in 1..MaxInfoLen :
       \E I \in BitArrays(n), t \in 0..(n + CONSTRAINT_LENGTH - 2),
          pair \in IdealPairs \cup { <<0, -3>>, <<3, 0>>, <<0, 0>>,
                                     <<LargeLLR, LargeLLR>>,
                                     <<-LargeLLR, -LargeLLR>> } :
         LET received_len == 2 * (n + CONSTRAINT_LENGTH - 1)
             received_llr == [i \in 0..(received_len - 1) |->
                                IF i \div 2 = t THEN pair[(i % 2) + 1]
                                ELSE IdealLLR(Codeword(I, n)[i])]
         IN ViterbiFrameReturn(
                [received_len |-> received_len, llr_null |-> FALSE,
                 bits_null |-> FALSE, len_null |-> FALSE,
                 decoded_bits |-> [i \in 0..(n - 1) |-> TRUE], decoded_len |-> 99],
                received_llr,
                ForwardPass(init_conv_state_table(state_table,
                                                  state_table_initialized).table,
                            received_llr, << InitialRow >>, 0, received_len \div 2))
    /\ state_table_initialized' = TRUE
    /\ UNCHANGED <<enc, md, ber, cber, threads, est>>

SpecFrame == Init /\ [][ViterbiFrameCall]_vars

\* C21: after the forward pass, for every stage s and state q the metric
\* path_metrics[s][q] differs from NEG_INF exactly when some sequence of s
\* inputs leads from state 0 to q, and it is then the largest sum of branch
\* metrics over those sequences; row 0 is 0 at state 0 and NEG_INF elsewhere.
\* An input sequence is the number v whose bit t is the input of step t.
C21_ForwardPassInvariant ==
    (vit.pc = "returned" /\ vit.ret = 0) =>
        \A s \in 0..vit.num_stages :
            LET RECURSIVE Walk(_, _, _, _)
                Walk(v, t, q, sum) ==
                    IF t = s THEN <<q, sum>>
                    ELSE Walk(v, t + 1, forward_table[q].next_state[Bit(v, t)],
                              sum + BranchMetric(forward_table[q].output[Bit(v, t)],
                                                 ReceivedLLR(2 * t),
                                                 ReceivedLLR(2 * t + 1)))
                ends == [v \in 0..(Pow2(s) - 1) |-> Walk(v, 0, 0, 0)]
            IN \A q \in States :
                 LET into == { v \in DOMAIN ends : ends[v][1] = q }
                 IN /\ (path_metrics(s, q) # NEG_INF) <=> (into # {})
                    /\ (into # {}) =>
                          /\ \A v \in into : ends[v][2] <= path_metrics(s, q)
                          /\ \E v \in into : ends[v][2] = path_metrics(s, q)

\* C22: the traceback of an accepted frame walks recorded survivors.  at(s)
\* is the state the walk visits at stage s, and h(s) the history byte it
\* reads there.
C22_TracebackFollowsSurvivors ==
    (vit.pc = "returned" /\ vit.ret = 0) =>
        LET N == vit.num_stages
            RECURSIVE at(_)
            at(s) == IF s >= N THEN TracebackStart
                     ELSE path_history(s + 1, at(s + 1)) \div 2
            h(s) == path_history(s, at(s))
        IN /\ \A s \in 1..N :
                /\ path_metrics(s, at(s)) # NEG_INF
                /\ forward_table[h(s) \div 2].next_state[h(s) % 2] = at(s)
           /\ at(0) = 0
           /\ \A s \in (N - (CONSTRAINT_LENGTH - 2))..N : h(s) % 2 = 0
           /\ \A s \in 1..(N - (CONSTRAINT_LENGTH - 1)) :
                vit.decoded_bits[s - 1] = (h(s) % 2 = 1)

(***************************************************************************)
(* The contents of the state table after init_conv_state_table.            *)
(***************************************************************************)

\* C23: after init_conv_state_table, for every state q and input u the
\* table holds next_state[u] = ((u << 6) | q) >> 1 and
\* output[u] = (parity(sr & G1) << 1) | parity(sr & G2) with sr = (u << 6) | q,
\* and exactly two (state, input) pairs lead into q: the two predecessor
\* entries of q are these two pairs, distinct, each with next_state = q.
C23_StateTableContents ==
    state_table_initialized =>
        \A q \in States :
            LET sr(u) == u * Pow2(CONSTRAINT_LENGTH - 1) + q
                parity(x, g) ==
                    LET RECURSIVE F(_)
                        F(i) == IF i < 0 THEN 0
                                ELSE (Bit(x, i) * Bit(g, i) + F(i - 1)) % 2
                    IN F(CONSTRAINT_LENGTH - 1)
                entry(c) == << state_table[q].prev_state[c],
                               state_table[q].prev_input[c] >>
                leading == { pr \in States \X (0..1) :
                               state_table[pr[1]].next_state[pr[2]] = q }
            IN /\ \A u \in 0..1 :
                    /\ state_table[q].next_state[u] = sr(u) \div 2
                    /\ state_table[q].output[u]
                         = 2 * parity(sr(u), G1) + parity(sr(u), G2)
               /\ Cardinality(leading) = 2
               /\ entry(0) # entry(1)
               /\ { entry(0), entry(1) } = leading

\* the table is built, and state 32 is entered from states 0 and 1 by input 1
C23_Witness ==
    /\ state_table_initialized
    /\ state_table[NUM_STATES \div 2].prev_state[0] = 0
    /\ state_table[NUM_STATES \div 2].prev_state[1] = 1
    /\ state_table[NUM_STATES \div 2].prev_input[0] = 1
    /\ state_table[NUM_STATES \div 2].prev_input[1] = 1
    /\ state_table[NUM_STATES - 1].output[1] = 3

(***************************************************************************)
(* The mapper and the LLR generator of compute_ber_coded on their own:     *)
(* the coded bits go through the inline mapper and, with every noise       *)
(* sample 0, through the LLR generator.  The coded bits are the codewords  *)
(* of the encoder and every bit sequence of up to MaxSyms symbols.         *)
(***************************************************************************)

\* the Eb/N0 values of the runs, in tenths of a dB
MapSnrs == { -200, -100, 0, 100 }

CodedMapAndLLR ==
    /\ cber.pc = "idle"
    /\ \E mod_order \in valid_mod_orders, snr_db \in MapSnrs :
       \E coded_bits \in
            UNION { BitArrays(j * Log2Floor(mod_order)) : j \in 1..MaxSyms }
              \cup (IF mod_order = 16 THEN {}
                    ELSE { Codeword(I, MaxInfoLen) : I \in BitArrays(MaxInfoLen) }) :
         LET symbols == CodedSymbols(coded_bits, Size(coded_bits), mod_order)
         IN cber' = [pc |-> "mapped", re_first |-> cber.re_first,
                     args |-> [mod_order |-> mod_order, snr_db |-> snr_db,
                               coded_bits |-> coded_bits],
                     res |-> [symbols |-> symbols,
                              llr |-> CodedLLRs(symbols, Size(coded_bits), mod_order,
                                                << Pow10Db(snr_db)[1] * Log2Floor(mod_order),
                                                   Pow10Db(snr_db)[2] >>).llr]]
    /\ UNCHANGED <<state_table_initialized, enc, vit, md, ber, threads, est>>

SpecCodedMap == Init /\ [][CodedMapAndLLR]_vars

\* The LLR at index p comes from the place the mapper gave coded bit p:
\* symbol p / k, the real axis for an even offset in the group and the
\* imaginary axis for an odd one, and for 16-QAM the msb role for offsets
\* 0, 1 and the lsb role for offsets 2, 3.
LLRFromMappedPlace(p) ==
    LET M      == cber.args.mod_order
        bits   == cber.args.coded_bits
        k      == Log2Floor(M)
        axis   == IF M = 2 THEN 1 ELSE (p % 2) + 1
        lsb    == M = 16 /\ (p % k) >= 2
        comp   == cber.res.symbols[p \div k][axis]
        scale  == << Pow10Db(cber.args.snr_db)[1] * k, Pow10Db(cber.args.snr_db)[2] >>
    IN /\ comp = (CASE M = 2 -> Antipodal(bits[p])
                    [] M = 4 -> Mul(Antipodal(bits[p]), scale_qpsk)
                    [] OTHER -> Mul(IF lsb THEN get_level(bits[p - 2], bits[p])
                                    ELSE get_level(bits[p], bits[p + 2]),
                                    scale_16qam))
       /\ cber.res.llr[p] =
            (IF M = 16
             THEN fill_llrs(Div(comp, scale_16qam), scale)[IF lsb THEN 2 ELSE 1]
             ELSE TimesScale(-comp, scale))

\* the LLR at index p is positive for a coded 1 and negative for a coded 0
LLRSignIsBit(p) ==
    IF cber.args.coded_bits[p] THEN cber.res.llr[p] > 0 ELSE cber.res.llr[p] < 0

\* C24, as the claim states it: with no noise, for every M in {2, 4, 16} and
\* every coded bit position p, the LLR at index p comes from the symbol,
\* axis and Gray role the mapper gave coded bit p, and it is positive when
\* coded bit p is 1 and negative when it is 0.
C24_LLRSignAtEverySnr ==
    cber.pc = "mapped" =>
        \A p \in DOMAIN cber.args.coded_bits :
            LLRFromMappedPlace(p) /\ LLRSignIsBit(p)

\* C24, amended: the order holds as stated, and the sign holds except for
\* the lsb LLR of a 16-QAM bit that is 0 (an outer level, +3 or -3): that
\* LLR is negative at Eb/N0 of -10 dB and above and positive at -20 dB.
C24_LLROrderAndSign ==
    cber.pc = "mapped" =>
        \A p \in DOMAIN cber.args.coded_bits :
            LET outer_lsb == /\ cber.args.mod_order = 16
                             /\ (p % 4) >= 2
                             /\ ~cber.args.coded_bits[p]
            IN /\ LLRFromMappedPlace(p)
               /\ (~outer_lsb \/ cber.args.snr_db >= -100) => LLRSignIsBit(p)
               /\ (outer_lsb /\ cber.args.snr_db <= -200) => cber.res.llr[p] > 0

\* a 16-QAM symbol +3 - 1j at -20 dB: the msb LLRs and the lsb LLR of the
\* inner level carry the sign of their bits, the lsb LLR of the outer level
\* does not
C24_Witness ==
    /\ cber.pc = "mapped"
    /\ cber.args.mod_order = 16
    /\ cber.args.snr_db = -200
    /\ cber.args.coded_bits = [p \in 0..3 |-> p % 2 = 1]
    /\ cber.res.llr[0] < 0
    /\ cber.res.llr[1] > 0
    /\ cber.res.llr[2] > 0
    /\ cber.res.llr[3] > 0

\* C25: for every M in {2, 4, 16} and every coded bit sequence whose length
\* is a multiple of k, the mapper written inline in compute_ber_coded gives
\* the symbols of modulate(bits, M): as many, and the same point at each
\* index.
C25_InlineMapperIsModulate ==
    cber.pc = "mapped" =>
        LET modulated == modulate(cber.args.coded_bits, cber.args.mod_order)
        IN /\ Size(cber.res.symbols) = Size(modulated)
           /\ \A i \in DOMAIN modulated : cber.res.symbols[i] = modulated[i]

\* two 16-QAM symbols, -3 - 3j and +3 + 3j, from the inline mapper
C25_Witness ==
    /\ cber.pc = "mapped"
    /\ cber.args.mod_order = 16
    /\ cber.args.coded_bits = [p \in 0..7 |-> p < 2]
    /\ Size(cber.res.symbols) = 2
    /\ cber.res.symbols[0] = << Mul(-3 * FP, scale_16qam), Mul(-3 * FP, scale_16qam) >>
    /\ cber.res.symbols[1] = << Mul(3 * FP, scale_16qam), Mul(3 * FP, scale_16qam) >>

(***************************************************************************)
(* The 16-QAM branch of demodulate for one symbol, from the de-normalised  *)
(* value z on: the quantiser on each axis, then the bit pairs.             *)
(***************************************************************************)

\* de-normalised component values: the four levels, the three thresholds,
\* their neighbours one thousandth away, and values beyond the outer levels
QuantiserInputs ==
    { -5 * FP, -3 * FP, -2 * FP - 1, -2 * FP, -2 * FP + 1, -FP, -1, 0, 1,
      FP, 2 * FP - 1, 2 * FP, 2 * FP + 1, 3 * FP, 5 * FP }

DemodLevelCall ==
    /\ md.pc = "idle"
    /\ \E z \in QuantiserInputs \X QuantiserInputs :
         LET re_level == demod_level(z[1])
             im_level == demod_level(z[2])
             re_bits  == level_to_bits(re_level)
             im_bits  == level_to_bits(im_level)
         IN md' = [pc |-> "quantised", z |-> z,
                   levels |-> << re_level, im_level >>,
                   bits |-> [j \in 0..3 |-> CASE j = 0 -> re_bits[1]
                                              [] j = 2 -> re_bits[2]
                                              [] j = 1 -> im_bits[1]
                                              [] OTHER -> im_bits[2]]]
    /\ UNCHANGED <<state_table_initialized, enc, vit, ber, cber, threads, est>>

SpecQuant == Init /\ [][DemodLevelCall]_vars

\* C26: demod_level maps a de-normalised component x to +3 when x > 2, to
\* +1 when 0 < x <= 2, to -1 when -2 < x <= 0 and to -3 when x <= -2, the
\* values x = 2, 0, -2 included, and the demodulator emits (msb, lsb) =
\* (0,0) for +3, (0,1) for +1, (1,1) for -1 and (1,0) for -3.
C26_QuantiserThresholds ==
    md.pc = "quantised" =>
        \A axis \in 1..2 :
            LET x     == md.z[axis]
                level == md.levels[axis]
                pair  == << md.bits[axis - 1], md.bits[axis + 1] >>
            IN /\ (x > 2 * FP) => level = 3 * FP
               /\ (0 < x /\ x <= 2 * FP) => level = FP
               /\ (-2 * FP < x /\ x <= 0) => level = -FP
               /\ (x <= -2 * FP) => level = -3 * FP
               /\ level = 3 * FP => pair = << FALSE, FALSE >>
               /\ level = FP => pair = << FALSE, TRUE >>
               /\ level = -FP => pair = << TRUE, TRUE >>
               /\ level = -3 * FP => pair = << TRUE, FALSE >>
               /\ level \in { 3 * FP, FP, -FP, -3 * FP }

\* x = 2 on the real axis gives +1, bits (0,1); x = -2 on the imaginary
\* axis gives -3, bits (1,0)
C26_Witness ==
    /\ md.pc = "quantised"
    /\ md.z = << 2 * FP, -2 * FP >>
    /\ md.levels = << FP, -3 * FP >>
    /\ md.bits = [j \in 0..3 |-> j \in {1, 2}]

(***************************************************************************)
(* The two bytes the coder packs a (state, input) pair into: the shift     *)
(* register of the table and the history byte of the decoder, which the    *)
(* traceback takes apart again.                                            *)
(***************************************************************************)

HistoryByteRoundTrip ==
    /\ vit.pc = "idle"
    /\ \E state \in States, input \in 0..1 :
         LET history == history_bytes[state][input]
         IN vit' = [pc |-> "stored", state |-> state, input |-> input,
                    shift_reg |-> shift_reg(state, input),
                    history |-> history,
                    prev_state |-> history \div 2,
                    read_input |-> history % 2]
    /\ UNCHANGED <<state_table_initialized, enc, md, ber, cber, threads, est>>

SpecByte == Init /\ [][HistoryByteRoundTrip]_vars

\* C27: for every state q in [0, 64) and input u in {0, 1} the values
\* (q << 1) | u and (u << 6) | q are at most 255 and the bytes hold them
\* unchanged, and history >> 1, history & 1 give back the q and u stored.
C27_BytesLoseNothing ==
    vit.pc = "stored" =>
        LET q == vit.state
            u == vit.input
        IN /\ 2 * q + u <= 255
           /\ vit.history = 2 * q + u
           /\ Pow2(CONSTRAINT_LENGTH - 1) * u + q <= 255
           /\ vit.shift_reg = Pow2(CONSTRAINT_LENGTH - 1) * u + q
           /\ vit.prev_state = q
           /\ vit.read_input = u

\* the largest pair, state 63 with input 1: both bytes are 127
C27_Witness ==
    /\ vit.pc = "stored"
    /\ vit.state = NUM_STATES - 1
    /\ vit.input = 1
    /\ vit.history = 127
    /\ vit.shift_reg = 127
    /\ vit.prev_state = NUM_STATES - 1
    /\ vit.read_input = 1

(***************************************************************************)
(* Three calls of convolutional_encode in a row: on a, on b and on the     *)
(* bitwise XOR of a and b, two info sequences of the same length.          *)
(***************************************************************************)

\* what the three calls left: status, coded bits and coded length of each
EncodePairReturn(a, b, ra, rb, rx) ==
    /\ enc' = [pc |-> "pair", a |-> a, b |-> b, info_len |-> Size(a),
               ret |-> << ra.ret, rb.ret, rx.ret >>,
               coded_len |-> << ra.coded_len, rb.coded_len, rx.coded_len >>,
               coded_a |-> ra.coded_bits, coded_b |-> rb.coded_bits,
               coded_x |-> rx.coded_bits]
    /\ state_table_initialized' = rx.initialized

EncodePairCall ==
    /\ enc.pc = "idle"
    /\ \E n \in 1..MaxEncLen :
       \E a \in BitArrays(n), b \in BitArrays(n) :
         LET args(I) == [info_bits |-> I, info_len |-> n, info_null |-> FALSE,
                         coded_null |-> FALSE, len_null |-> FALSE,
                         coded_bits |-> EmptyBuf, coded_len |-> 0]
             \* the table as the first call leaves it for the other two
             g == init_conv_state_table(state_table, state_table_initialized)
         IN EncodePairReturn(a, b,
                convolutional_encode(args(a), state_table, state_table_initialized),
                convolutional_encode(args(b), g.table, g.initialized),
                convolutional_encode(args([i \in 0..(n - 1) |-> a[i] # b[i]]),
                                     g.table, g.initialized))
    /\ UNCHANGED <<vit, md, ber, cber, threads, est>>

SpecLinear == Init /\ [][EncodePairCall]_vars

\* C28: for two info sequences a and b of the same length L >= 1, the coded
\* sequence of a XOR b is the bitwise XOR of the coded sequences of a and of
\* b, and the all-zero info sequence has the all-zero coded sequence.
C28_EncoderLinear ==
    enc.pc = "pair" =>
        /\ enc.ret = << 0, 0, 0 >>
        /\ \A c \in 1..3 :
             enc.coded_len[c] = CODE_RATE_DEN * (enc.info_len + CONSTRAINT_LENGTH - 1)
        /\ \A i \in 0..(enc.coded_len[3] - 1) :
             enc.coded_x[i] = (enc.coded_a[i] # enc.coded_b[i])
        /\ (\A i \in DOMAIN enc.a : ~enc.a[i]) =>
             (\A i \in 0..(enc.coded_len[1] - 1) : ~enc.coded_a[i])

\* two different sequences of the longest length whose coded sequences
\* share a 1
C28_Witness ==
    /\ enc.pc = "pair"
    /\ enc.info_len = MaxEncLen
    /\ enc.a # enc.b
    /\ \E i \in DOMAIN enc.coded_a : enc.coded_a[i] /\ enc.coded_b[i]
    /\ \E i \in DOMAIN enc.coded_x : enc.coded_x[i]

====
